---- MODULE Spec2Model ----
(***************************************************************************)
(* MonoGL: 1bpp rasterizer (Surface) and the double-buffer submission      *)
(* state machine (Present<Backend, kFramebufferBytes>).                    *)
(*                                                                         *)
(* The owning context runs the public operations one at a time; an         *)
(* asynchronous SubmitFrame is split at its accesses to the shared atomic  *)
(* flag so that the completion context's OnTransferDone can interleave.   *)
(***************************************************************************)
EXTENDS Integers, Sequences, FiniteSets, TLC

(***************************************************************************)
(* Bounds of the model                                                     *)
(***************************************************************************)
\* template parameter kFramebufferBytes of the checked instantiation
kFramebufferBytes == 4
\* how many of the latest events on the shared flag the observer log keeps
MaxFlagLog == 2
\* how many Surface calls a drawing sequence has
MaxCalls == 3
\* the longest span handed to DrawHLine / DrawVLine, but for one long one
MaxSpan == 3
\* the longest line handed to DrawLine, in steps
MaxLine == 12

(***************************************************************************)
(* Integer widths                                                          *)
(***************************************************************************)
ToUint16(v) == v % 65536

ToInt16(v) == LET m == v % 65536 IN IF m >= 32768 THEN m - 65536 ELSE m

ToUint8(v) == v % 256

\* C++ integer division truncates toward zero
CDiv(a, b) == IF a >= 0 THEN a \div b ELSE -((-a) \div b)

\* x & 0x7 on a two's complement int
And7(x) == x % 8

Max(a, b) == IF a >= b THEN a ELSE b

Min(a, b) == IF a <= b THEN a ELSE b

(***************************************************************************)
(* Geometry (surface.hpp)                                                  *)
(***************************************************************************)
MkRect(x, y, w, h) == [x |-> x, y |-> y, w |-> w, h |-> h]

EmptyRect == MkRect(0, 0, 0, 0)

rect_empty(rect) == rect.w = 0 \/ rect.h = 0

\* mutant: a side that comes out empty is returned as a zero extent of its own
intersect_rect_half_empty(a, b) ==
  LET LEFT   == Max(a.x, b.x)
      TOP    == Max(a.y, b.y)
      RIGHT  == Min(a.x + a.w, b.x + b.w)
      BOTTOM == Min(a.y + a.h, b.y + b.h)
  IN MkRect(ToInt16(LEFT), ToInt16(TOP),
            ToUint16(Max(RIGHT - LEFT, 0)), ToUint16(Max(BOTTOM - TOP, 0)))

\* mutant: the right and bottom edges are added up in int16_t
intersect_rect_int16_sums(a, b) ==
  LET LEFT   == Max(a.x, b.x)
      TOP    == Max(a.y, b.y)
      RIGHT  == Min(ToInt16(a.x + a.w), ToInt16(b.x + b.w))
      BOTTOM == Min(ToInt16(a.y + a.h), ToInt16(b.y + b.h))
  IN IF RIGHT <= LEFT \/ BOTTOM <= TOP
       THEN EmptyRect
       ELSE MkRect(ToInt16(LEFT), ToInt16(TOP),
                   ToUint16(RIGHT - LEFT), ToUint16(BOTTOM - TOP))

intersect_rect(a, b) ==
  LET LEFT   == Max(a.x, b.x)
      TOP    == Max(a.y, b.y)
      RIGHT  == Min(a.x + a.w, b.x + b.w)
      BOTTOM == Min(a.y + a.h, b.y + b.h)
  IN IF RIGHT <= LEFT \/ BOTTOM <= TOP
       THEN EmptyRect
       ELSE MkRect(ToInt16(LEFT), ToInt16(TOP),
                   ToUint16(RIGHT - LEFT), ToUint16(BOTTOM - TOP))

\* mutant: an empty operand is not tested for
union_rect_no_identity(a, b) ==
  LET LEFT   == Min(a.x, b.x)
      TOP    == Min(a.y, b.y)
      RIGHT  == Max(a.x + a.w, b.x + b.w)
      BOTTOM == Max(a.y + a.h, b.y + b.h)
  IN MkRect(ToInt16(LEFT), ToInt16(TOP),
            ToUint16(RIGHT - LEFT), ToUint16(BOTTOM - TOP))

union_rect(a, b) ==
  IF rect_empty(a) THEN b
  ELSE IF rect_empty(b) THEN a
  ELSE LET LEFT   == Min(a.x, b.x)
           TOP    == Min(a.y, b.y)
           RIGHT  == Max(a.x + a.w, b.x + b.w)
           BOTTOM == Max(a.y + a.h, b.y + b.h)
       IN MkRect(ToInt16(LEFT), ToInt16(TOP),
                 ToUint16(RIGHT - LEFT), ToUint16(BOTTOM - TOP))

(***************************************************************************)
(* Surface (surface.cpp).  A Surface value is the record of its fields;    *)
(* bits is the index of the framebuffer it points into, or NullBits.       *)
(***************************************************************************)
\* the null bits pointer (a framebuffer is named by its index, 0 or 1)
NullBits == -1

bounds_rect(size) == MkRect(0, 0, size.w, size.h)

default_stride(size) == IF size.w = 0 THEN 0 ELSE ToUint16((size.w + 7) \div 8)

Bounds(s) == bounds_rect(s.size)

\* Surface{} : every field default-initialized
DefaultSurface ==
  [bits |-> NullBits, size |-> [w |-> 0, h |-> 0], stride_bytes |-> 0,
   clip |-> EmptyRect, dirty |-> EmptyRect]

\* mutant: the dirty rect is kept
ClearDirtyRectKept(s) == s

ClearDirtyRect(s) == [s EXCEPT !.dirty = EmptyRect]

ResetClip(s) == [s EXCEPT !.clip = Bounds(s)]

Bind(s, bits, size, stride_bytes) ==
  LET bound == [s EXCEPT !.bits = bits, !.size = size,
                         !.stride_bytes = IF stride_bytes = 0
                                            THEN default_stride(size)
                                            ELSE stride_bytes]
  IN ClearDirtyRect(ResetClip(bound))

\* mutant: the dirty rect is the latest rect only
MarkDirtyLatest(s, rect) ==
  LET clipped == intersect_rect(rect, Bounds(s))
  IN IF rect_empty(clipped) THEN s ELSE [s EXCEPT !.dirty = clipped]

MarkDirty(s, rect) ==
  LET clipped == intersect_rect(rect, Bounds(s))
  IN IF rect_empty(clipped) THEN s
     ELSE IF rect_empty(s.dirty) THEN [s EXCEPT !.dirty = clipped]
     ELSE [s EXCEPT !.dirty = union_rect(s.dirty, clipped)]

AddDirtyRect(s, rect) == MarkDirty(s, rect)

GetDirtyRect(s) == s.dirty

\* mutant: the right edge of the clip rect counts as inside
InClipRightEdge(s, point) ==
  /\ ~(point.x < s.clip.x \/ point.y < s.clip.y)
  /\ ~(point.x > s.clip.x + s.clip.w \/ point.y >= s.clip.y + s.clip.h)

InClip(s, point) ==
  /\ ~(point.x < s.clip.x \/ point.y < s.clip.y)
  /\ ~(point.x >= s.clip.x + s.clip.w \/ point.y >= s.clip.y + s.clip.h)

\* bit test / set / clear / flip of one mask bit of a byte
HasMask(byte, mask) == (byte \div mask) % 2 = 1

OrMask(byte, mask) == IF HasMask(byte, mask) THEN byte ELSE byte + mask

ClearMask(byte, mask) == IF HasMask(byte, mask) THEN byte - mask ELSE byte

\* mutant: XOR sets the bit
XorMaskSets(byte, mask) == IF HasMask(byte, mask) THEN byte ELSE byte + mask

XorMask(byte, mask) == IF HasMask(byte, mask) THEN byte - mask ELSE byte + mask

\* 0x80U >> n for n in 0..7
Shr80(n) == 2 ^ (7 - n)

\* PlotUnchecked on the byte array buf of a surface with the given stride
PlotUnchecked(buf, stride_bytes, x, y, color, raster_op) ==
  IF stride_bytes = 0 THEN buf
  ELSE LET BYTE_INDEX == y * stride_bytes + CDiv(x, 8)
           MASK       == Shr80(And7(x))
           SRC_IS_SET == (color = "WHITE")
           dst        == buf[BYTE_INDEX]
           out == CASE raster_op = "COPY" ->
                         IF SRC_IS_SET THEN OrMask(dst, MASK) ELSE ClearMask(dst, MASK)
                    [] raster_op = "XOR" ->
                         IF SRC_IS_SET THEN XorMask(dst, MASK) ELSE dst
                    [] raster_op = "AND" ->
                         IF ~SRC_IS_SET THEN ClearMask(dst, MASK) ELSE dst
                    [] raster_op = "OR" ->
                         IF SRC_IS_SET THEN OrMask(dst, MASK) ELSE dst
       IN [buf EXCEPT ![BYTE_INDEX] = out]

\* Surface::DrawPixel on surface s drawing into the byte array buf:
\* the pair <<buffer after, surface after>>
\* mutant: no test of bits_ against nullptr
DrawPixelAnyBits(s, buf, point, color, raster_op) ==
  IF ~InClip(s, point)
    THEN <<buf, s>>
    ELSE <<PlotUnchecked(buf, s.stride_bytes, point.x, point.y, color, raster_op),
           MarkDirty(s, MkRect(point.x, point.y, 1, 1))>>

DrawPixel(s, buf, point, color, raster_op) ==
  IF s.bits = NullBits \/ ~InClip(s, point)
    THEN <<buf, s>>
    ELSE <<PlotUnchecked(buf, s.stride_bytes, point.x, point.y, color, raster_op),
           MarkDirty(s, MkRect(point.x, point.y, 1, 1))>>

\* std::abs on int32_t
Abs(v) == IF v < 0 THEN -v ELSE v

\* mutant: SetClip takes the rect as it is
SetClipUnclipped(s, rect) == [s EXCEPT !.clip = rect]

SetClip(s, rect) == [s EXCEPT !.clip = intersect_rect(rect, Bounds(s))]

GetClip(s) == s.clip

\* mutant: Clear fills inside the clip rect only
ClearClipped(s, buf, color) ==
  IF s.bits = NullBits \/ s.size.w = 0 \/ s.size.h = 0 \/ s.stride_bytes = 0
    THEN <<buf, s>>
    ELSE LET FILL == IF color = "WHITE" THEN 255 ELSE 0
         IN <<[k \in DOMAIN buf |->
                 IF k >= s.clip.y * s.stride_bytes
                      /\ k < (s.clip.y + s.clip.h) * s.stride_bytes
                   THEN FILL ELSE buf[k]],
              MarkDirty(s, s.clip)>>

\* Surface::Clear: memset of stride_bytes_ * size_.h bytes, then MarkDirty
Clear(s, buf, color) ==
  IF s.bits = NullBits \/ s.size.w = 0 \/ s.size.h = 0 \/ s.stride_bytes = 0
    THEN <<buf, s>>
    ELSE LET BYTES == s.stride_bytes * s.size.h
             FILL  == IF color = "WHITE" THEN 255 ELSE 0
         IN <<[k \in DOMAIN buf |-> IF k < BYTES THEN FILL ELSE buf[k]],
              MarkDirty(s, Bounds(s))>>

\* the loop of DrawHLine / DrawVLine: count calls of PlotUnchecked from
\* (x, y) on, stepping by (dx, dy)
RECURSIVE PlotRun(_, _, _, _, _, _, _, _, _)
PlotRun(buf, stride_bytes, x, y, dx, dy, count, color, raster_op) ==
  IF count <= 0 THEN buf
  ELSE PlotRun(PlotUnchecked(buf, stride_bytes, ToInt16(x), ToInt16(y), color, raster_op),
               stride_bytes, x + dx, y + dy, dx, dy, count - 1, color, raster_op)

\* mutant: a negative length is drawn as a forward span from the same start
DrawHLineNoShift(s, buf, point, length, color, raster_op) ==
  IF s.bits = NullBits \/ length = 0 THEN <<buf, s>>
  ELSE LET span == IF length < 0 THEN -length ELSE length
           rect == intersect_rect(MkRect(ToInt16(point.x), point.y, ToUint16(span), 1),
                                  s.clip)
       IN IF rect_empty(rect) THEN <<buf, s>>
          ELSE <<PlotRun(buf, s.stride_bytes, rect.x, rect.y, 1, 0, rect.w,
                         color, raster_op),
                 MarkDirty(s, rect)>>

\* the rect DrawHLine plots and marks dirty: the span, moved and turned round
\* when the length is negative, narrowed to a Rect and cut to the clip rect;
\* an empty rect when DrawHLine returns before plotting
HLineSpan(s, point, length) ==
  IF s.bits = NullBits \/ length = 0 THEN EmptyRect
  ELSE LET x    == IF length < 0 THEN point.x + length ELSE point.x
           span == IF length < 0 THEN -length ELSE length
       IN IF span <= 0 THEN EmptyRect
          ELSE intersect_rect(MkRect(ToInt16(x), point.y, ToUint16(span), 1), s.clip)

\* Surface::DrawHLine
DrawHLine(s, buf, point, length, color, raster_op) ==
  LET rect == HLineSpan(s, point, length)
  IN IF rect_empty(rect) THEN <<buf, s>>
     ELSE <<PlotRun(buf, s.stride_bytes, rect.x, rect.y, 1, 0, rect.w, color, raster_op),
            MarkDirty(s, rect)>>

\* the rect DrawVLine plots and marks dirty
VLineSpan(s, point, length) ==
  IF s.bits = NullBits \/ length = 0 THEN EmptyRect
  ELSE LET y    == IF length < 0 THEN point.y + length ELSE point.y
           span == IF length < 0 THEN -length ELSE length
       IN IF span <= 0 THEN EmptyRect
          ELSE intersect_rect(MkRect(point.x, ToInt16(y), 1, ToUint16(span)), s.clip)

\* Surface::DrawVLine
DrawVLine(s, buf, point, length, color, raster_op) ==
  LET rect == VLineSpan(s, point, length)
  IN IF rect_empty(rect) THEN <<buf, s>>
     ELSE <<PlotRun(buf, s.stride_bytes, rect.x, rect.y, 0, 1, rect.h, color, raster_op),
            MarkDirty(s, rect)>>

\* the points the loop of DrawHLine / DrawVLine plots for a span rect, in order
SpanPoints(rect) ==
  [i \in 1 .. rect.w * rect.h |->
     [x |-> rect.x + ((i - 1) % rect.w), y |-> rect.y + ((i - 1) \div rect.w)]]

\* DrawPixel called for each point of the sequence pts in turn
RECURSIVE DrawPixels(_, _, _, _, _)
DrawPixels(s, buf, pts, color, raster_op) ==
  IF pts = <<>> THEN <<buf, s>>
  ELSE LET out == DrawPixel(s, buf, Head(pts), color, raster_op)
       IN DrawPixels(out[2], out[1], Tail(pts), color, raster_op)

\* the while (true) loop of DrawLine: the points it hands to DrawPixel
RECURSIVE LineLoop(_, _, _, _, _, _, _, _, _)
LineLoop(x0, y0, X1, Y1, DX, SX, DY, SY, err) ==
  <<[x |-> ToInt16(x0), y |-> ToInt16(y0)]>> \o
  ( IF x0 = X1 /\ y0 = Y1 THEN <<>>
    ELSE LET E2   == 2 * err
             stpx == E2 >= DY
             stpy == E2 <= DX
         IN LineLoop(IF stpx THEN x0 + SX ELSE x0, IF stpy THEN y0 + SY ELSE y0,
                     X1, Y1, DX, SX, DY, SY,
                     err + (IF stpx THEN DY ELSE 0) + (IF stpy THEN DX ELSE 0)) )

\* mutant: the end point is not plotted
LinePointsOpenEnd(p0, p1) ==
  LET DX  == Abs(p1.x - p0.x)
      SX  == IF p0.x < p1.x THEN 1 ELSE -1
      DY  == -Abs(p1.y - p0.y)
      SY  == IF p0.y < p1.y THEN 1 ELSE -1
      pts == LineLoop(p0.x, p0.y, p1.x, p1.y, DX, SX, DY, SY, DX + DY)
  IN SubSeq(pts, 1, Len(pts) - 1)

\* the points Surface::DrawLine hands to DrawPixel, in order
LinePoints(p0, p1) ==
  LET DX == Abs(p1.x - p0.x)
      SX == IF p0.x < p1.x THEN 1 ELSE -1
      DY == -Abs(p1.y - p0.y)
      SY == IF p0.y < p1.y THEN 1 ELSE -1
  IN LineLoop(p0.x, p0.y, p1.x, p1.y, DX, SX, DY, SY, DX + DY)

\* Surface::DrawLine
DrawLine(s, buf, p0, p1, color, raster_op) ==
  DrawPixels(s, buf, LinePoints(p0, p1), color, raster_op)

\* a call of DrawHLine or DrawVLine with its geometry
LineCall(fn, x, y, length) == [fn |-> fn, point |-> [x |-> x, y |-> y], length |-> length]

\* mutant: the vertical sides run over the full height of the rect
RectLinesFullSides(rect) ==
  <<LineCall("DrawHLine", rect.x, rect.y, ToInt16(rect.w))>> \o
  ( IF rect.h > 1
      THEN <<LineCall("DrawHLine", rect.x, ToInt16(rect.y + rect.h - 1), ToInt16(rect.w))>>
      ELSE <<>> ) \o
  ( IF rect.h > 2
      THEN <<LineCall("DrawVLine", rect.x, rect.y, ToInt16(rect.h))>> \o
           ( IF rect.w > 1
               THEN <<LineCall("DrawVLine", ToInt16(rect.x + rect.w - 1), rect.y,
                               ToInt16(rect.h))>>
               ELSE <<>> )
      ELSE <<>> )

\* the line calls Surface::DrawRect makes for a non-empty rect, in order
RectLines(rect) ==
  <<LineCall("DrawHLine", rect.x, rect.y, ToInt16(rect.w))>> \o
  ( IF rect.h > 1
      THEN <<LineCall("DrawHLine", rect.x, ToInt16(rect.y + rect.h - 1), ToInt16(rect.w))>>
      ELSE <<>> ) \o
  ( IF rect.h > 2
      THEN <<LineCall("DrawVLine", rect.x, ToInt16(rect.y + 1), ToInt16(rect.h - 2))>> \o
           ( IF rect.w > 1
               THEN <<LineCall("DrawVLine", ToInt16(rect.x + rect.w - 1),
                               ToInt16(rect.y + 1), ToInt16(rect.h - 2))>>
               ELSE <<>> )
      ELSE <<>> )

\* the line calls of the sequence lines made in turn
RECURSIVE DrawLines(_, _, _, _, _)
DrawLines(s, buf, lines, color, raster_op) ==
  IF lines = <<>> THEN <<buf, s>>
  ELSE LET line == Head(lines)
           out  == IF line.fn = "DrawHLine"
                     THEN DrawHLine(s, buf, line.point, line.length, color, raster_op)
                     ELSE DrawVLine(s, buf, line.point, line.length, color, raster_op)
       IN DrawLines(out[2], out[1], Tail(lines), color, raster_op)

\* the points those line calls plot, in order
RECURSIVE LinesPoints(_, _)
LinesPoints(s, lines) ==
  IF lines = <<>> THEN <<>>
  ELSE LET line == Head(lines)
           span == IF line.fn = "DrawHLine"
                     THEN HLineSpan(s, line.point, line.length)
                     ELSE VLineSpan(s, line.point, line.length)
       IN SpanPoints(span) \o LinesPoints(s, Tail(lines))

\* Surface::DrawRect
DrawRect(s, buf, rect, color, raster_op) ==
  IF rect_empty(rect) THEN <<buf, s>>
  ELSE DrawLines(s, buf, RectLines(rect), color, raster_op)

\* the row loop of FillRect: DrawHLine for rows y .. y_end - 1 of rect
RECURSIVE FillRows(_, _, _, _, _, _, _)
FillRows(s, buf, rect, y, y_end, color, raster_op) ==
  IF y >= y_end THEN <<buf, s>>
  ELSE LET out == DrawHLine(s, buf, [x |-> rect.x, y |-> ToInt16(y)], ToInt16(rect.w),
                            color, raster_op)
       IN FillRows(out[2], out[1], rect, y + 1, y_end, color, raster_op)

\* Surface::FillRect
FillRect(s, buf, rect, color, raster_op) ==
  LET clipped == intersect_rect(rect, s.clip)
  IN IF rect_empty(clipped) THEN <<buf, s>>
     ELSE FillRows(s, buf, clipped, clipped.y, clipped.y + clipped.h, color, raster_op)

\* the while (x >= y) loop of DrawCircle: the points it hands to DrawPixel
RECURSIVE CircleLoop(_, _, _, _)
CircleLoop(center, x, y, err) ==
  IF ~(x >= y) THEN <<>>
  ELSE LET P(dx, dy) == [x |-> ToInt16(center.x + dx), y |-> ToInt16(center.y + dy)]
           y1 == y + 1
       IN << P(x, y), P(y, x), P(-y, x), P(-x, y),
             P(-x, -y), P(-y, -x), P(y, -x), P(x, -y) >> \o
          ( IF err < 0
              THEN CircleLoop(center, x, y1, err + 2 * y1 + 1)
              ELSE CircleLoop(center, x - 1, y1, err + 2 * (y1 - (x - 1) + 1)) )

\* Surface::DrawCircle
DrawCircle(s, buf, center, radius, color, raster_op) ==
  DrawPixels(s, buf, CircleLoop(center, radius, 0, 1 - radius), color, raster_op)

\* the members of a set of integers in ascending order
RECURSIVE Ascending(_)
Ascending(S) ==
  IF S = {} THEN <<>>
  ELSE LET least == CHOOSE k \in S : \A j \in S : k <= j
       IN <<least>> \o Ascending(S \ {least})

\* a const uint8_t* handed to DrawBitmap: null, or the bytes it points to;
\* buffer is the number of the framebuffer whose first byte it points at, and
\* NullBits for memory that is no framebuffer
NullSource == [null |-> TRUE, buffer |-> NullBits, bytes |-> <<>>]

Source(bytes) == [null |-> FALSE, buffer |-> NullBits, bytes |-> bytes]

\* the two loops of DrawBitmap: the points handed to DrawPixel, row by row;
\* the source bytes are read MSB first with the default stride
BitmapPoints(point, bits, size) ==
  LET SRC_STRIDE == default_stride(size)
      set == { k \in 0 .. size.w * size.h - 1 :
                 LET x == k % size.w
                     y == k \div size.w
                 IN HasMask(bits.bytes[y * SRC_STRIDE + (x \div 8)], Shr80(x % 8)) }
      order == Ascending(set)
  IN [i \in 1 .. Len(order) |->
        [x |-> ToInt16(point.x + (order[i] % size.w)),
         y |-> ToInt16(point.y + (order[i] \div size.w))]]

\* mutant: an opaque blit, every source bit is drawn
DrawBitmapOpaque(s, buf, point, bits, size, foreground, raster_op) ==
  IF bits.null \/ size.w = 0 \/ size.h = 0 THEN <<buf, s>>
  ELSE DrawPixels(s, buf,
                  [i \in 1 .. size.w * size.h |->
                     [x |-> ToInt16(point.x + ((i - 1) % size.w)),
                      y |-> ToInt16(point.y + ((i - 1) \div size.w))]],
                  foreground, raster_op)

\* the two loops of DrawBitmap when bits points at the buffer the Surface draws
\* on: source bit k (row by row) is read from the bytes as the DrawPixel calls
\* made so far have left them. The result is [buf, s, pixels], pixels being
\* the points handed to DrawPixel
RECURSIVE BitmapLoop(_, _, _, _, _, _, _, _)
BitmapLoop(s, buf, point, size, k, foreground, raster_op, pixels) ==
  IF k = size.w * size.h THEN [buf |-> buf, s |-> s, pixels |-> pixels]
  ELSE LET x    == k % size.w
           y    == k \div size.w
           BYTE == buf[y * default_stride(size) + (x \div 8)]
           MASK == Shr80(x % 8)
           p    == [x |-> ToInt16(point.x + x), y |-> ToInt16(point.y + y)]
           out  == DrawPixel(s, buf, p, foreground, raster_op)
       IN IF HasMask(BYTE, MASK)
            THEN BitmapLoop(out[2], out[1], point, size, k + 1, foreground, raster_op,
                            Append(pixels, p))
            ELSE BitmapLoop(s, buf, point, size, k + 1, foreground, raster_op, pixels)

\* bits points at the bytes the Surface is bound to
ReadsOwnBuffer(s, bits) == ~bits.null /\ s.bits # NullBits /\ bits.buffer = s.bits

\* the points DrawBitmap hands to DrawPixel
DrawBitmapPoints(s, buf, point, bits, size, foreground, raster_op) ==
  IF bits.null \/ size.w = 0 \/ size.h = 0 THEN <<>>
  ELSE IF ReadsOwnBuffer(s, bits)
    THEN BitmapLoop(s, buf, point, size, 0, foreground, raster_op, <<>>).pixels
    ELSE BitmapPoints(point, bits, size)

\* Surface::DrawBitmap. Each source bit is read inside the loop; when bits is
\* memory the Surface does not write, that is the bit as it was before the call
DrawBitmap(s, buf, point, bits, size, foreground, raster_op) ==
  IF bits.null \/ size.w = 0 \/ size.h = 0 THEN <<buf, s>>
  ELSE IF ReadsOwnBuffer(s, bits)
    THEN LET out == BitmapLoop(s, buf, point, size, 0, foreground, raster_op, <<>>)
         IN <<out.buf, out.s>>
    ELSE DrawPixels(s, buf, BitmapPoints(point, bits, size), foreground, raster_op)

\* ---- text ----
\* const Font*: null, or a Font; glyphs is a const uint8_t* (see Source)
NullFont ==
  [null |-> TRUE, glyph_width |-> 0, glyph_height |-> 0, first_char |-> 32,
   last_char |-> 126, ascent |-> 0, descent |-> 0, glyphs |-> NullSource]

MkFont(glyph_width, glyph_height, first_char, last_char, ascent, descent, glyphs) ==
  [null |-> FALSE, glyph_width |-> glyph_width, glyph_height |-> glyph_height,
   first_char |-> first_char, last_char |-> last_char, ascent |-> ascent,
   descent |-> descent, glyphs |-> glyphs]

MkTextStyle(font, color, raster_op, scale_x, scale_y, letter_spacing) ==
  [font |-> font, color |-> color, raster_op |-> raster_op, scale_x |-> scale_x,
   scale_y |-> scale_y, letter_spacing |-> letter_spacing]

\* const char*: null, or the characters before the terminating '\0', each as
\* the uint8_t it is read as
NullText == [null |-> TRUE, chars |-> <<>>]

Text(chars) == [null |-> FALSE, chars |-> chars]

NewLine == 10

font_ascent(font) == IF font.ascent = 0 THEN font.glyph_height ELSE font.ascent

font_descent(font) == font.descent

font_line_height(font) ==
  LET LINE_HEIGHT == font_ascent(font) + font_descent(font)
  IN IF LINE_HEIGHT <= 0 THEN font.glyph_height ELSE LINE_HEIGHT

\* the gy / gx loops of DrawText for the glyph that starts at byte glyph of
\* font.glyphs, from glyph bit k on (row by row): a FillRect for each set bit.
\* A bit is read when the loop reaches it: from the bytes the FillRect calls
\* made so far have left when font.glyphs points at the buffer the Surface
\* draws on. The result is [buf, s, rects], rects being the rects handed to
\* FillRect so far
RECURSIVE GlyphLoop(_, _, _, _, _, _, _, _)
GlyphLoop(s, buf, style, glyph, cursor_x, TOP_Y, k, rects) ==
  LET font == style.font
  IN IF k = font.glyph_width * font.glyph_height
       THEN [buf |-> buf, s |-> s, rects |-> rects]
       ELSE LET SCALE_X == IF style.scale_x = 0 THEN 1 ELSE style.scale_x
                SCALE_Y == IF style.scale_y = 0 THEN 1 ELSE style.scale_y
                gx      == k % font.glyph_width
                gy      == k \div font.glyph_width
                bytes   == IF ReadsOwnBuffer(s, font.glyphs) THEN buf
                           ELSE font.glyphs.bytes
                BYTE    == bytes[glyph + gy * ((font.glyph_width + 7) \div 8) + (gx \div 8)]
                MASK    == Shr80(gx % 8)
                rect    == MkRect(ToInt16(cursor_x + gx * SCALE_X),
                                  ToInt16(TOP_Y + gy * SCALE_Y), SCALE_X, SCALE_Y)
                out     == FillRect(s, buf, rect, style.color, style.raster_op)
            IN IF HasMask(BYTE, MASK)
                 THEN GlyphLoop(out[2], out[1], style, glyph, cursor_x, TOP_Y, k + 1,
                                Append(rects, rect))
                 ELSE GlyphLoop(s, buf, style, glyph, cursor_x, TOP_Y, k + 1, rects)

\* the rects the gy / gx loops hand to FillRect for one glyph
GlyphRects(s, buf, style, glyph, cursor_x, TOP_Y) ==
  GlyphLoop(s, buf, style, glyph, cursor_x, TOP_Y, 0, <<>>).rects

\* the loop of DrawText over the characters, from character number first on;
\* the result is [buf, s, rects] as in GlyphLoop
RECURSIVE TextLoop(_, _, _, _, _, _, _, _, _)
TextLoop(s, buf, chars, style, baseline_left, cursor_x, baseline_y, first, rects) ==
  IF first > Len(chars) THEN [buf |-> buf, s |-> s, rects |-> rects]
  ELSE LET font         == style.font
           SCALE_X      == IF style.scale_x = 0 THEN 1 ELSE style.scale_x
           SCALE_Y      == IF style.scale_y = 0 THEN 1 ELSE style.scale_y
           GLYPH_STRIDE == ToUint16(((font.glyph_width + 7) \div 8) * font.glyph_height)
           ADVANCE      == font.glyph_width * SCALE_X + style.letter_spacing
           ASCENT       == font_ascent(font)
           LINE_HEIGHT  == font_line_height(font)
           CH           == chars[first]
           TOP_Y        == baseline_y - ASCENT * SCALE_Y
           out          == IF CH >= font.first_char /\ CH <= font.last_char
                             THEN GlyphLoop(s, buf, style,
                                            (CH - font.first_char) * GLYPH_STRIDE,
                                            cursor_x, TOP_Y, 0, rects)
                             ELSE [buf |-> buf, s |-> s, rects |-> rects]
       IN IF CH = NewLine
            THEN TextLoop(s, buf, chars, style, baseline_left, baseline_left.x,
                          baseline_y + LINE_HEIGHT * SCALE_Y + 1, first + 1, rects)
            ELSE TextLoop(out.s, out.buf, chars, style, baseline_left,
                          cursor_x + ADVANCE, baseline_y, first + 1, out.rects)

\* the rects the character loop hands to FillRect
TextRects(s, buf, chars, style, baseline_left, cursor_x, baseline_y, first) ==
  TextLoop(s, buf, chars, style, baseline_left, cursor_x, baseline_y, first, <<>>).rects

\* DrawText returns before its loop
NoText(text, style) ==
  \/ text.null \/ style.font.null
  \/ style.font.glyphs.null \/ style.font.glyph_width = 0
  \/ style.font.glyph_height = 0 \/ style.font.last_char < style.font.first_char

\* the rects DrawText hands to FillRect, in order
DrawTextRects(s, buf, baseline_left, text, style) ==
  IF NoText(text, style) THEN <<>>
  ELSE TextRects(s, buf, text.chars, style, baseline_left, baseline_left.x,
                 baseline_left.y, 1)

\* Surface::DrawText(Point, const char*, const TextStyle&)
DrawText(s, buf, baseline_left, text, style) ==
  IF NoText(text, style) THEN <<buf, s>>
  ELSE LET out == TextLoop(s, buf, text.chars, style, baseline_left, baseline_left.x,
                           baseline_left.y, 1, <<>>)
       IN <<out.buf, out.s>>

\* Surface::DrawText(Point, const char*, const TextStyle&, RasterOp)
DrawTextOp(s, buf, baseline_left, text, style, raster_op) ==
  DrawText(s, buf, baseline_left, text, [style EXCEPT !.raster_op = raster_op])

\* the baseline DrawTextTopLeft hands to DrawText
TopLeftBaseline(top_left, style) ==
  IF style.font.null THEN top_left
  ELSE LET SCALE_Y == IF style.scale_y = 0 THEN 1 ELSE style.scale_y
           ASCENT  == font_ascent(style.font)
       IN [x |-> top_left.x, y |-> ToInt16(top_left.y + ASCENT * SCALE_Y)]

\* Surface::DrawTextTopLeft(Point, const char*, const TextStyle&)
DrawTextTopLeft(s, buf, top_left, text, style) ==
  DrawText(s, buf, TopLeftBaseline(top_left, style), text, style)

\* Surface::DrawTextTopLeft(Point, const char*, const TextStyle&, RasterOp)
DrawTextTopLeftOp(s, buf, top_left, text, style, raster_op) ==
  DrawTextTopLeft(s, buf, top_left, text, [style EXCEPT !.raster_op = raster_op])

(***************************************************************************)
(* Present (present.hpp): types, inputs and state                          *)
(***************************************************************************)
PresentModes == {"AUTO", "FULL", "DIRTY"}

Rotations == {"R0", "R90"}

\* statuses a backend answers Present / SetPowerSave / SetContrast with
BackendStatus == {"OK", "SIZE_ERR", "BUSY"}

MkConfig(w, h, bm, pr, edt) ==
  [width |-> w, height |-> h, rotation |-> "R0", buffer_mode |-> bm,
   page_rows |-> pr, enable_dirty_tracking |-> edt]

\* DisplayConfig values handed to the constructor
Configs ==
  { MkConfig(9, 2, "PAGE", 1, TRUE),
    MkConfig(9, 2, "FULL", 0, FALSE),
    MkConfig(9, 2, "PAGE", 0, TRUE),
    MkConfig(0, 2, "FULL", 8, TRUE),
    MkConfig(9, 0, "FULL", 8, TRUE),
    MkConfig(9, 3, "FULL", 8, TRUE),
    MkConfig(17, 2, "FULL", 8, TRUE) }

DefaultCaps ==
  [partial_update |-> FALSE, power_save |-> FALSE, contrast |-> FALSE,
   async_present |-> FALSE]

MkCaps(partial, power, contrast, async) ==
  [partial_update |-> partial, power_save |-> power, contrast |-> contrast,
   async_present |-> async]

\* BackendCaps values a backend reports: every combination of partial_update
\* with async_present, and every combination of power_save with contrast
CapsSet ==
  { MkCaps(FALSE, FALSE, FALSE, FALSE),
    MkCaps(TRUE,  TRUE,  FALSE, FALSE),
    MkCaps(FALSE, FALSE, TRUE,  TRUE),
    MkCaps(TRUE,  TRUE,  TRUE,  TRUE) }

\* a backend: what its Init answers and what its Caps reports
Backends == [init_status : {"OK", "INIT_ERR"}, caps : CapsSet]

\* explicit rects handed to PresentFrame(Rect)
ExplicitRects ==
  { MkRect(8, 1, 4, 4), MkRect(-2, -2, 1, 1), MkRect(0, 0, 0, 2) }

\* points, colors and raster ops handed to Surface::DrawPixel
DrawPoints == { [x |-> 0, y |-> 0], [x |-> 8, y |-> 1], [x |-> 9, y |-> 0] }

Colors == {"BLACK", "WHITE"}

DrawOps == {"COPY", "XOR"}

ContrastValues == {0, 255}

NoCall == [fn |-> "none", arg |-> 0]

Call(fn, arg) == [fn |-> fn, arg |-> arg]

\* no call of a drawing sequence has been made on the Surface
NoSurfaceCall ==
  [fn |-> "none", args |-> <<>>, pixels |-> <<>>, result |-> <<>>, n |-> 0]

VARIABLES
  cfg,                  \* cfg_
  caps,                 \* caps_
  backend,              \* backend_ : [init_status, caps]
  framebuffers,         \* framebuffers_ : buffer index -> byte index -> byte
  surface,              \* surface_
  draw_buffer_index,    \* draw_buffer_index_
  transfer_in_progress, \* transfer_in_progress_ (atomic)
  initialized,          \* initialized_
  in_frame,             \* in_frame_
  pc,                   \* where the owning context is inside SubmitFrame
  frame,                \* SubmitFrame's FrameView
  mode,                 \* SubmitFrame's mode argument
  hw_bits,              \* buffer an accepted asynchronous transfer still reads
  bk_called,            \* backend method the latest owning-context call invoked
  bk_status,            \* status that backend method answered
  ret,                  \* status the latest owning-context call returned
  flag_log,             \* latest events on the flag: "STORE", or the status an
                        \* OnTransferDone returned
  call                  \* latest call of a drawing sequence on the Surface,
                        \* or of a geometry function with its result

vars ==
  <<cfg, caps, backend, framebuffers, surface, draw_buffer_index,
    transfer_in_progress, initialized, in_frame, pc, frame, mode, hw_bits,
    bk_called, bk_status, ret, flag_log, call>>

FullRect(c) == MkRect(0, 0, c.width, c.height)

ClipToFrame(rect, c) == intersect_rect(rect, FullRect(c))

StrideBytes(c) == ToUint16((c.width + 7) \div 8)

FramebufferBytes(c) == StrideBytes(c) * c.height

ZeroBuffer == [k \in 0 .. kFramebufferBytes - 1 |-> 0]

\* std::array<std::array<uint8_t, kFramebufferBytes>, 2> framebuffers_{}
ZeroFramebuffers == [i \in {0, 1} |-> ZeroBuffer]

\* BindDrawSurface: surface_.Bind(framebuffers_[index].data(), size, stride)
BindDrawSurface(s, index, c) ==
  Bind(s, index, [w |-> c.width, h |-> c.height], StrideBytes(c))

DefaultFrame ==
  [bits |-> NullBits, width |-> 0, height |-> 0, stride_bytes |-> 0,
   dirty |-> EmptyRect]

\* mutant: the PAGE-mode page_rows check is missing
CtorChecksNoPageRows(config) ==
  /\ ~(config.width = 0 \/ config.height = 0)
  /\ ~(FramebufferBytes(config) > kFramebufferBytes)

\* The constructor's checks before backend Init is called
CtorChecksPass(config) ==
  /\ ~(config.width = 0 \/ config.height = 0)
  /\ ~(config.buffer_mode = "PAGE" /\ config.page_rows = 0)
  /\ ~(FramebufferBytes(config) > kFramebufferBytes)

\* Present::Present(Backend backend, DisplayConfig config)
PresentCtor(b, config) ==
  /\ cfg = config
  /\ backend = b
  /\ transfer_in_progress = FALSE
  /\ in_frame = FALSE
  /\ draw_buffer_index = 0
  /\ framebuffers = ZeroFramebuffers
  /\ IF ~CtorChecksPass(config)
       THEN /\ initialized = FALSE
            /\ caps = DefaultCaps
            /\ surface = DefaultSurface
            /\ bk_called = NoCall
       ELSE /\ bk_called = Call("Init", 0)
            /\ IF b.init_status # "OK"
                 THEN /\ initialized = FALSE
                      /\ caps = DefaultCaps
                      /\ surface = DefaultSurface
                 ELSE /\ initialized = TRUE
                      /\ caps = b.caps
                      /\ surface =
                           AddDirtyRect(
                             ClearDirtyRect(BindDrawSurface(DefaultSurface, 0, config)),
                             FullRect(config))

Init ==
  /\ \E b \in Backends, config \in Configs : PresentCtor(b, config)
  /\ pc = "idle"
  /\ frame = DefaultFrame
  /\ mode = "AUTO"
  /\ hw_bits = NullBits
  /\ ret = "NONE"
  /\ flag_log = <<>>
  /\ bk_status = IF bk_called.fn = "Init" THEN backend.init_status ELSE "NONE"
  /\ call = NoSurfaceCall

(***************************************************************************)
(* Present: private helpers                                                *)
(***************************************************************************)
\* the row-by-row byte copy of CopyRegionBetweenBuffers: the framebuffers
\* after copying the whole bytes that span the clipped region's columns
CopyRows(fbs, src_index, dst_index, region, c) ==
  LET CLIPPED      == ClipToFrame(region, c)
      STRIDE       == StrideBytes(c)
      X_BYTE_START == CDiv(CLIPPED.x, 8)
      X_BYTE_END   == CDiv(CLIPPED.x + CLIPPED.w + 7, 8)
      COPY_BYTES   == X_BYTE_END - X_BYTE_START
      Y_START      == CLIPPED.y
      Y_END        == CLIPPED.y + CLIPPED.h
      Copied(k)    == \E y \in Y_START .. Y_END - 1 :
                        /\ k >= y * STRIDE + X_BYTE_START
                        /\ k <  y * STRIDE + X_BYTE_START + COPY_BYTES
  IN IF rect_empty(CLIPPED) \/ COPY_BYTES = 0
       THEN fbs
       ELSE [fbs EXCEPT ![dst_index] =
               [k \in DOMAIN fbs[dst_index] |->
                  IF Copied(k) THEN fbs[src_index][k] ELSE fbs[dst_index][k]]]

\* mutant: the copy runs from the new draw buffer into the submitted one
CopyRegionReversed(fbs, src_index, dst_index, region, c) ==
  CopyRows(fbs, dst_index, src_index, region, c)

\* mutant: whole rows of the region are copied
CopyRegionWholeRows(fbs, src_index, dst_index, region, c) ==
  CopyRows(fbs, src_index, dst_index,
           MkRect(0, ClipToFrame(region, c).y, c.width, ClipToFrame(region, c).h), c)

\* CopyRegionBetweenBuffers(src_index, dst_index, region)
CopyRegionBetweenBuffers(fbs, src_index, dst_index, region, c) ==
  CopyRows(fbs, src_index, dst_index, region, c)

\* the observer log after event e: the latest MaxFlagLog events
Logged(log, e) ==
  IF Len(log) < MaxFlagLog THEN Append(log, e) ELSE Append(Tail(log), e)

\* mutant: the draw index is not flipped
NextBufferSame(submitted) == submitted

\* SUBMITTED ^ 1U
NextBuffer(submitted) == (submitted + 1) % 2

\* SwapToNextDrawBuffer(sync_region)
SwapToNextDrawBuffer(sync_region) ==
  LET SUBMITTED == draw_buffer_index
      NEXT      == NextBuffer(SUBMITTED)
  IN /\ framebuffers' =
          CopyRegionBetweenBuffers(framebuffers, SUBMITTED, NEXT, sync_region, cfg)
     /\ draw_buffer_index' = NEXT
     /\ surface' = ClearDirtyRect(BindDrawSurface(surface, NEXT, cfg))

\* a call that does not reach SubmitFrame builds no FrameView
NoSubmit == frame' = DefaultFrame /\ mode' = "AUTO"

\* An owning-context call that returns status st at once, leaving Present alone
ReturnOnly(st) ==
  /\ ret' = st
  /\ bk_called' = NoCall
  /\ bk_status' = "NONE"
  /\ NoSubmit
  /\ UNCHANGED <<cfg, caps, backend, call, framebuffers, surface, draw_buffer_index,
                 transfer_in_progress, initialized, in_frame, pc, hw_bits,
                 flag_log>>

\* mutant: the gate never sees a transfer in flight
AcquireLoadStale(flag) == FALSE

\* transfer_in_progress_.load(std::memory_order_acquire)
AcquireLoad(flag) == flag

IsTransferInProgress == AcquireLoad(transfer_in_progress)

\* SubmitFrame(region, mode) up to its first access to the shared flag; the
\* synchronous path runs to its return
SubmitFrame(region, m) ==
  /\ frame' = [bits |-> draw_buffer_index, width |-> cfg.width,
               height |-> cfg.height, stride_bytes |-> StrideBytes(cfg),
               dirty |-> region]
  /\ mode' = m
  /\ IF ~caps.async_present
       THEN \E STATUS \in BackendStatus :
              /\ bk_called' = Call("Present", 0)
              /\ bk_status' = STATUS
              /\ surface' = IF STATUS = "OK" THEN ClearDirtyRect(surface) ELSE surface
              /\ ret' = STATUS
              /\ UNCHANGED <<cfg, caps, backend, call, framebuffers, draw_buffer_index,
                             transfer_in_progress, initialized, in_frame, pc,
                             hw_bits, flag_log>>
       ELSE IF AcquireLoad(transfer_in_progress)
         THEN /\ ret' = "BUSY"
              /\ bk_called' = NoCall
              /\ bk_status' = "NONE"
              /\ UNCHANGED <<cfg, caps, backend, call, framebuffers, surface,
                             draw_buffer_index, transfer_in_progress, initialized,
                             in_frame, pc, hw_bits, flag_log>>
         ELSE /\ pc' = "present"
              /\ ret' = "NONE"
              /\ bk_called' = NoCall
              /\ bk_status' = "NONE"
              /\ UNCHANGED <<cfg, caps, backend, call, framebuffers, surface,
                             draw_buffer_index, transfer_in_progress, initialized,
                             in_frame, hw_bits, flag_log>>

\* mutant: the status of backend Present is not looked at
SubmitFrame_PresentIgnoresStatus ==
  /\ pc = "present"
  /\ bk_called' = Call("Present", 0)
  /\ \E STATUS \in BackendStatus :
       /\ bk_status' = STATUS
       /\ pc' = "store"
       /\ hw_bits' = frame.bits
       /\ UNCHANGED ret
  /\ UNCHANGED <<cfg, caps, backend, call, framebuffers, surface, draw_buffer_index,
                 transfer_in_progress, initialized, in_frame, frame, mode, flag_log>>

\* SubmitFrame, asynchronous path: backend_.Present(frame, mode)
SubmitFrame_Present ==
  /\ pc = "present"
  /\ bk_called' = Call("Present", 0)
  /\ \E STATUS \in BackendStatus :
       /\ bk_status' = STATUS
       /\ IF STATUS # "OK"
            THEN /\ ret' = STATUS
                 /\ pc' = "idle"
                 /\ UNCHANGED hw_bits
            ELSE /\ pc' = "store"
                 /\ hw_bits' = frame.bits
                 /\ UNCHANGED ret
  /\ UNCHANGED <<cfg, caps, backend, call, framebuffers, surface, draw_buffer_index,
                 transfer_in_progress, initialized, in_frame, frame, mode, flag_log>>

\* mutant: the flag is left as it was
SubmitFrame_StoreLost ==
  /\ pc = "store"
  /\ flag_log' = Logged(flag_log, "STORE")
  /\ pc' = "swap"
  /\ UNCHANGED <<cfg, caps, backend, call, framebuffers, surface, draw_buffer_index,
                 transfer_in_progress, initialized, in_frame, frame, mode,
                 hw_bits, bk_called, bk_status, ret>>

\* SubmitFrame, asynchronous path: transfer_in_progress_.store(true, release)
SubmitFrame_Store ==
  /\ pc = "store"
  /\ transfer_in_progress' = TRUE
  /\ flag_log' = Logged(flag_log, "STORE")
  /\ pc' = "swap"
  /\ UNCHANGED <<cfg, caps, backend, call, framebuffers, surface, draw_buffer_index,
                 initialized, in_frame, frame, mode, hw_bits, bk_called, bk_status, ret>>

\* SubmitFrame, asynchronous path: SwapToNextDrawBuffer(region); return OK
SubmitFrame_Swap ==
  /\ pc = "swap"
  /\ SwapToNextDrawBuffer(frame.dirty)
  /\ ret' = "OK"
  /\ pc' = "idle"
  /\ UNCHANGED <<cfg, caps, backend, call, transfer_in_progress, initialized, in_frame,
                 frame, mode, hw_bits, bk_called, bk_status, flag_log>>

(***************************************************************************)
(* Present: public operations                                              *)
(***************************************************************************)
\* mutant: an unconditional exchange
CompareExchangeBlind(flag) == <<FALSE, TRUE>>

\* the compare_exchange_strong(expected = true, false) of OnTransferDone:
\* <<flag after, whether it succeeded>>
CompareExchange(flag) == IF flag = TRUE THEN <<FALSE, TRUE>> ELSE <<flag, FALSE>>

\* OnTransferDone(), from the completion context at any point
OnTransferDone ==
  LET cas    == CompareExchange(transfer_in_progress)
      status == IF ~initialized THEN "INIT_ERR"
                ELSE IF ~caps.async_present THEN "NOT_SUPPORT"
                ELSE IF ~cas[2] THEN "STATE_ERR"
                ELSE "OK"
  IN /\ transfer_in_progress' =
          IF initialized /\ caps.async_present THEN cas[1] ELSE transfer_in_progress
     /\ flag_log' = Logged(flag_log, status)
     /\ hw_bits' = NullBits
     /\ UNCHANGED <<cfg, caps, backend, call, framebuffers, surface, draw_buffer_index,
                    initialized, in_frame, pc, frame, mode, bk_called, bk_status, ret>>

\* mutant: the initialized_ check is missing
BeginFrameUnchecked ==
  /\ pc = "idle"
  /\ IF in_frame THEN ReturnOnly("BUSY")
     ELSE /\ in_frame' = TRUE
          /\ ret' = "OK"
          /\ bk_called' = NoCall
          /\ bk_status' = "NONE"
          /\ NoSubmit
          /\ UNCHANGED <<cfg, caps, backend, call, framebuffers, surface,
                         draw_buffer_index, transfer_in_progress, initialized, pc,
                         hw_bits, flag_log>>

BeginFrame ==
  /\ pc = "idle"
  /\ IF ~initialized THEN ReturnOnly("INIT_ERR")
     ELSE IF in_frame THEN ReturnOnly("BUSY")
     ELSE /\ in_frame' = TRUE
          /\ ret' = "OK"
          /\ bk_called' = NoCall
          /\ bk_status' = "NONE"
          /\ NoSubmit
          /\ UNCHANGED <<cfg, caps, backend, call, framebuffers, surface,
                         draw_buffer_index, transfer_in_progress, initialized, pc,
                         hw_bits, flag_log>>

\* mutant: the in_frame_ check is missing
EndFrameUnchecked ==
  /\ pc = "idle"
  /\ IF ~initialized THEN ReturnOnly("INIT_ERR")
     ELSE /\ in_frame' = FALSE
          /\ ret' = "OK"
          /\ bk_called' = NoCall
          /\ bk_status' = "NONE"
          /\ NoSubmit
          /\ UNCHANGED <<cfg, caps, backend, call, framebuffers, surface,
                         draw_buffer_index, transfer_in_progress, initialized, pc,
                         hw_bits, flag_log>>

EndFrame ==
  /\ pc = "idle"
  /\ IF ~initialized THEN ReturnOnly("INIT_ERR")
     ELSE IF ~in_frame THEN ReturnOnly("ARG_ERR")
     ELSE /\ in_frame' = FALSE
          /\ ret' = "OK"
          /\ bk_called' = NoCall
          /\ bk_status' = "NONE"
          /\ NoSubmit
          /\ UNCHANGED <<cfg, caps, backend, call, framebuffers, surface,
                         draw_buffer_index, transfer_in_progress, initialized, pc,
                         hw_bits, flag_log>>

\* the capability downgrade at the head of PresentFrame(PresentMode)
ResolveByCaps(m, c) ==
  IF ~c.partial_update /\ (m = "AUTO" \/ m = "DIRTY") THEN "FULL" ELSE m

\* mutant: enable_dirty_tracking is ignored
TakesFullFrameAlwaysTracking(resolved, c) == resolved = "FULL"

\* whether PresentFrame(PresentMode) takes its full-frame branch
TakesFullFrame(resolved, c) ==
  resolved = "FULL" \/ (resolved = "AUTO" /\ ~c.enable_dirty_tracking)

\* PresentFrame(PresentMode mode)
PresentFrame(m) ==
  /\ pc = "idle"
  /\ IF ~initialized THEN ReturnOnly("INIT_ERR")
     ELSE LET resolved == ResolveByCaps(m, caps)
          IN IF TakesFullFrame(resolved, cfg)
               THEN SubmitFrame(FullRect(cfg), "FULL")
               ELSE LET region == ClipToFrame(GetDirtyRect(surface), cfg)
                    IN IF rect_empty(region)
                         THEN ReturnOnly("OK")
                         ELSE SubmitFrame(region, "DIRTY")

\* mutant: an empty explicit rect is reported as success
EmptyRectStatusOk == "OK"

\* the status PresentFrame(Rect) returns for a rect that clips to nothing
EmptyRectStatus == "ARG_ERR"

\* PresentFrame(Rect dirty_rect)
PresentFrameRect(dirty_rect) ==
  /\ pc = "idle"
  /\ IF ~initialized THEN ReturnOnly("INIT_ERR")
     ELSE LET clipped_dirty == ClipToFrame(dirty_rect, cfg)
              m == IF caps.partial_update THEN "DIRTY" ELSE "FULL"
          IN IF rect_empty(clipped_dirty)
               THEN ReturnOnly(EmptyRectStatus)
               ELSE SubmitFrame(IF m = "FULL" THEN FullRect(cfg) ELSE clipped_dirty, m)

\* mutant: the rotation is stored and the dirty rect left as it is
SetRotationNoMark(rotation) ==
  /\ pc = "idle"
  /\ IF ~initialized THEN ReturnOnly("INIT_ERR")
     ELSE /\ cfg' = [cfg EXCEPT !.rotation = rotation]
          /\ ret' = "OK"
          /\ bk_called' = NoCall
          /\ bk_status' = "NONE"
          /\ NoSubmit
          /\ UNCHANGED <<caps, backend, call, framebuffers, surface, draw_buffer_index,
                         transfer_in_progress, initialized, in_frame, pc, hw_bits,
                         flag_log>>

\* SetRotation(Rotation rotation)
SetRotation(rotation) ==
  /\ pc = "idle"
  /\ IF ~initialized THEN ReturnOnly("INIT_ERR")
     ELSE /\ cfg' = [cfg EXCEPT !.rotation = rotation]
          /\ surface' = AddDirtyRect(surface, FullRect(cfg'))
          /\ ret' = "OK"
          /\ bk_called' = NoCall
          /\ bk_status' = "NONE"
          /\ NoSubmit
          /\ UNCHANGED <<caps, backend, call, framebuffers, draw_buffer_index,
                         transfer_in_progress, initialized, in_frame, pc, hw_bits,
                         flag_log>>

\* mutant: the capability flag is not looked at
PassThroughUngated(has_cap, fn, arg) ==
  IF ~initialized THEN ReturnOnly("INIT_ERR")
  ELSE \E STATUS \in BackendStatus :
         /\ ret' = STATUS
         /\ bk_called' = Call(fn, arg)
         /\ bk_status' = STATUS
         /\ NoSubmit
         /\ UNCHANGED <<cfg, caps, backend, call, framebuffers, surface,
                        draw_buffer_index, transfer_in_progress, initialized,
                        in_frame, pc, hw_bits, flag_log>>

\* a pass-through to backend method fn, gated by capability flag has_cap
PassThrough(has_cap, fn, arg) ==
  IF ~initialized THEN ReturnOnly("INIT_ERR")
  ELSE IF ~has_cap THEN ReturnOnly("NOT_SUPPORT")
  ELSE \E STATUS \in BackendStatus :
         /\ ret' = STATUS
         /\ bk_called' = Call(fn, arg)
         /\ bk_status' = STATUS
         /\ NoSubmit
         /\ UNCHANGED <<cfg, caps, backend, call, framebuffers, surface,
                        draw_buffer_index, transfer_in_progress, initialized,
                        in_frame, pc, hw_bits, flag_log>>

SetPowerSave(enable) ==
  /\ pc = "idle"
  /\ PassThrough(caps.power_save, "SetPowerSave", IF enable THEN 1 ELSE 0)

SetContrast(value) ==
  /\ pc = "idle"
  /\ PassThrough(caps.contrast, "SetContrast", value)

\* GetSurface().DrawPixel(point, color, raster_op) on the owning context
SurfaceDrawPixel(point, color, raster_op) ==
  /\ pc = "idle"
  /\ LET buf == IF surface.bits = NullBits THEN ZeroBuffer
                ELSE framebuffers[surface.bits]
         out == DrawPixel(surface, buf, point, color, raster_op)
     IN /\ framebuffers' = IF surface.bits = NullBits THEN framebuffers
                           ELSE [framebuffers EXCEPT ![surface.bits] = out[1]]
        /\ surface' = out[2]
  /\ ret' = "NONE"
  /\ bk_called' = NoCall
  /\ bk_status' = "NONE"
  /\ NoSubmit
  /\ UNCHANGED <<cfg, caps, backend, call, draw_buffer_index, transfer_in_progress,
                 initialized, in_frame, pc, hw_bits, flag_log>>

Next ==
  \/ \E m \in PresentModes : PresentFrame(m)
  \/ \E r \in ExplicitRects : PresentFrameRect(r)
  \/ SubmitFrame_Present
  \/ SubmitFrame_Store
  \/ SubmitFrame_Swap
  \/ OnTransferDone
  \/ BeginFrame
  \/ EndFrame
  \/ \E r \in Rotations : SetRotation(r)
  \/ \E e \in BOOLEAN : SetPowerSave(e)
  \/ \E v \in ContrastValues : SetContrast(v)
  \/ \E p \in DrawPoints, c \in Colors, o \in DrawOps : SurfaceDrawPixel(p, c, o)

Spec == Init /\ [][Next]_vars

(***************************************************************************)
(* Drawing on the Surface of an initialized Present (GetSurface()), with   *)
(* every call recorded in the variable call                                *)
(***************************************************************************)
\* the bytes the Surface points at
DrawBuffer == IF surface.bits = NullBits THEN ZeroBuffer ELSE framebuffers[surface.bits]

\* everything a Surface call leaves alone
present_only ==
  <<cfg, caps, backend, draw_buffer_index, transfer_in_progress, initialized,
    in_frame, pc, frame, mode, hw_bits, bk_called, bk_status, ret, flag_log>>

\* one call of Surface method fn: out is <<bytes after, Surface after>>, pixels
\* the points the method handed to DrawPixel or plotted itself
SurfaceCallWith(fn, args, pixels, result, out) ==
  /\ pc = "idle"
  /\ call.n < MaxCalls
  /\ surface' = out[2]
  /\ framebuffers' = IF surface.bits = NullBits THEN framebuffers
                     ELSE [framebuffers EXCEPT ![surface.bits] = out[1]]
  /\ call' = [fn |-> fn, args |-> args, pixels |-> pixels, result |-> result,
               n |-> call.n + 1]
  /\ UNCHANGED present_only

SurfaceCall(fn, args, pixels, out) == SurfaceCallWith(fn, args, pixels, <<>>, out)

BindCall(bits, size, stride_bytes) ==
  SurfaceCall("Bind", <<bits, size, stride_bytes>>, <<>>,
              <<DrawBuffer, Bind(surface, bits, size, stride_bytes)>>)

ClearCall(color) ==
  SurfaceCall("Clear", <<color>>, <<>>, Clear(surface, DrawBuffer, color))

SetClipCall(rect) ==
  SurfaceCall("SetClip", <<rect>>, <<>>, <<DrawBuffer, SetClip(surface, rect)>>)

ResetClipCall ==
  SurfaceCall("ResetClip", <<>>, <<>>, <<DrawBuffer, ResetClip(surface)>>)

AddDirtyRectCall(rect) ==
  SurfaceCall("AddDirtyRect", <<rect>>, <<>>, <<DrawBuffer, AddDirtyRect(surface, rect)>>)

ClearDirtyRectCall ==
  SurfaceCall("ClearDirtyRect", <<>>, <<>>, <<DrawBuffer, ClearDirtyRect(surface)>>)

DrawPixelCall(point, color, raster_op) ==
  SurfaceCall("DrawPixel", <<point, color, raster_op>>, <<point>>,
              DrawPixel(surface, DrawBuffer, point, color, raster_op))

DrawHLineCall(point, length, color, raster_op) ==
  SurfaceCall("DrawHLine", <<point, length, color, raster_op>>, <<>>,
              DrawHLine(surface, DrawBuffer, point, length, color, raster_op))

DrawVLineCall(point, length, color, raster_op) ==
  SurfaceCall("DrawVLine", <<point, length, color, raster_op>>, <<>>,
              DrawVLine(surface, DrawBuffer, point, length, color, raster_op))

DrawLineCall(p0, p1, color, raster_op) ==
  SurfaceCall("DrawLine", <<p0, p1, color, raster_op>>, LinePoints(p0, p1),
              DrawLine(surface, DrawBuffer, p0, p1, color, raster_op))

\* pixels: the points plotted; result: the line calls made
DrawRectCall(rect, color, raster_op) ==
  LET lines == IF rect_empty(rect) THEN <<>> ELSE RectLines(rect)
  IN SurfaceCallWith("DrawRect", <<rect, color, raster_op>>,
                     LinesPoints(surface, lines), lines,
                     DrawRect(surface, DrawBuffer, rect, color, raster_op))

FillRectCall(rect, color, raster_op) ==
  SurfaceCall("FillRect", <<rect, color, raster_op>>, <<>>,
              FillRect(surface, DrawBuffer, rect, color, raster_op))

DrawCircleCall(center, radius, color, raster_op) ==
  SurfaceCall("DrawCircle", <<center, radius, color, raster_op>>,
              CircleLoop(center, radius, 0, 1 - radius),
              DrawCircle(surface, DrawBuffer, center, radius, color, raster_op))

\* a pointer at the first byte of framebuffers_[index]
FramebufferSource(index) ==
  [null |-> FALSE, buffer |-> index, bytes |-> framebuffers[index]]

\* source is the number of the source bitmap (0: a framebuffer), bits its bytes
DrawBitmapCall(point, source, bits, size, foreground, raster_op) ==
  SurfaceCall("DrawBitmap", <<point, source, size, foreground, raster_op>>,
              DrawBitmapPoints(surface, DrawBuffer, point, bits, size, foreground,
                               raster_op),
              DrawBitmap(surface, DrawBuffer, point, bits, size, foreground, raster_op))

\* the text calls; result: the rects handed to FillRect
DrawTextCall(baseline_left, text, style) ==
  SurfaceCallWith("DrawText", <<baseline_left, text, style>>, <<>>,
                  DrawTextRects(surface, DrawBuffer, baseline_left, text, style),
                  DrawText(surface, DrawBuffer, baseline_left, text, style))

DrawTextOpCall(baseline_left, text, style, raster_op) ==
  SurfaceCallWith("DrawText", <<baseline_left, text, style, raster_op>>, <<>>,
                  DrawTextRects(surface, DrawBuffer, baseline_left, text,
                                [style EXCEPT !.raster_op = raster_op]),
                  DrawTextOp(surface, DrawBuffer, baseline_left, text, style, raster_op))

DrawTextTopLeftCall(top_left, text, style) ==
  SurfaceCallWith("DrawTextTopLeft", <<top_left, text, style>>, <<>>,
                  DrawTextRects(surface, DrawBuffer, TopLeftBaseline(top_left, style),
                                text, style),
                  DrawTextTopLeft(surface, DrawBuffer, top_left, text, style))

DrawTextTopLeftOpCall(top_left, text, style, raster_op) ==
  SurfaceCallWith("DrawTextTopLeft", <<top_left, text, style, raster_op>>, <<>>,
                  DrawTextRects(surface, DrawBuffer, TopLeftBaseline(top_left, style),
                                text, [style EXCEPT !.raster_op = raster_op]),
                  DrawTextTopLeftOp(surface, DrawBuffer, top_left, text, style, raster_op))

Pt(x, y) == [x |-> x, y |-> y]

\* ---- sequences of Surface calls ----
\* sizes handed to Bind (with the default stride they fit the buffer)
SeqSizes == { [w |-> 9, h |-> 2], [w |-> 4, h |-> 3] }

\* rects handed to SetClip, AddDirtyRect, DrawRect and FillRect
SeqRects ==
  { MkRect(1, 0, 8, 1), MkRect(8, 1, 4, 4), MkRect(-3, -3, 2, 2),
    MkRect(32767, 32767, 65535, 65535) }

SeqPoints == { Pt(0, 0), Pt(8, 1) }

\* fonts: 3 x 2 glyphs for 'A' (101 / 010) and 'B' (111 / 100), with an
\* ascent of one row, and the same with no ascent and a descent of one row
GlyphsAB ==
  Source([k \in 0 .. 3 |-> IF k = 0 THEN 160 ELSE IF k = 1 THEN 64
                           ELSE IF k = 2 THEN 224 ELSE 128])

FontAB == MkFont(3, 2, 65, 66, 1, 0, GlyphsAB)

FontNoAscent == MkFont(3, 2, 65, 66, 0, 1, GlyphsAB)

\* fonts DrawText draws nothing with: no glyphs, no width, no height, and a
\* last character below the first
EmptyFonts ==
  { MkFont(3, 2, 65, 66, 1, 0, NullSource), MkFont(0, 2, 65, 66, 1, 0, GlyphsAB),
    MkFont(3, 0, 65, 66, 1, 0, GlyphsAB), MkFont(3, 2, 66, 65, 1, 0, GlyphsAB) }

\* styles handed to the text calls of a sequence
PlainStyle == MkTextStyle(FontAB, "WHITE", "COPY", 1, 1, 0)

WideStyle == MkTextStyle(FontNoAscent, "WHITE", "XOR", 2, 0, -1)

SeqStyles == { PlainStyle, WideStyle }

\* a style whose font keeps its glyph table at the start of the framebuffer
\* the Surface draws on
OwnFontStyle ==
  MkTextStyle(MkFont(3, 2, 65, 66, 1, 0, FramebufferSource(surface.bits)),
              "WHITE", "XOR", 2, 1, 0)

\* styles handed to single text calls
TextStyles ==
  SeqStyles \cup
  { MkTextStyle(FontAB, "BLACK", "COPY", 1, 2, 1),
    MkTextStyle(FontAB, "WHITE", "XOR", 0, 1, 0),
    MkTextStyle(NullFont, "WHITE", "COPY", 1, 1, 0) } \cup
  { MkTextStyle(font, "WHITE", "COPY", 1, 1, 0) : font \in EmptyFonts }

\* "A", "AB" and "A\nB"
SeqTexts == { Text(<<65>>), Text(<<65, 66>>), Text(<<65, NewLine, 66>>) }

\* these, a null pointer, "", and "CB" (no glyph for 'C')
Texts == SeqTexts \cup { NullText, Text(<<>>), Text(<<67, 66>>) }

TextStarts == { Pt(1, 1), Pt(5, 0), Pt(-1, 2), Pt(32767, 1) }

SeqLengths == { 3, -9 }

\* the Present whose Surface is drawn on
SurfaceInit ==
  /\ Init
  /\ initialized
  /\ caps = DefaultCaps
  /\ cfg.buffer_mode = "FULL"

SurfaceNext ==
  \/ \E size \in SeqSizes : BindCall(surface.bits, size, 0)
  \/ \E index \in {0, 1} :
       BindCall(index, [w |-> cfg.width, h |-> cfg.height], StrideBytes(cfg))
  \/ AddDirtyRectCall(FullRect(cfg))
  \/ \E color \in Colors : ClearCall(color)
  \/ \E rect \in SeqRects : SetClipCall(rect)
  \/ ResetClipCall
  \/ \E rect \in SeqRects : AddDirtyRectCall(rect)
  \/ ClearDirtyRectCall
  \/ \E point \in SeqPoints : DrawPixelCall(point, "WHITE", "XOR")
  \/ \E point \in SeqPoints, length \in SeqLengths :
       DrawHLineCall(point, length, "WHITE", "COPY")
  \/ \E point \in SeqPoints, length \in SeqLengths :
       DrawVLineCall(point, length, "WHITE", "COPY")
  \/ \E p0 \in SeqPoints, p1 \in SeqPoints : DrawLineCall(p0, p1, "WHITE", "COPY")
  \/ \E rect \in SeqRects : DrawRectCall(rect, "WHITE", "COPY")
  \/ \E rect \in SeqRects : FillRectCall(rect, "WHITE", "XOR")
  \/ \E center \in SeqPoints : DrawCircleCall(center, 1, "WHITE", "COPY")
  \/ \E point \in SeqPoints : DrawTextCall(point, Text(<<65, NewLine, 66>>), PlainStyle)
  \/ \E point \in SeqPoints : DrawTextOpCall(point, Text(<<65>>), WideStyle, "COPY")
  \/ \E point \in SeqPoints : DrawTextTopLeftCall(point, Text(<<65, 66>>), WideStyle)
  \/ \E point \in SeqPoints : DrawTextTopLeftOpCall(point, Text(<<65>>), PlainStyle, "XOR")

SurfaceSpec == SurfaceInit /\ [][SurfaceNext]_vars

\* ---- single drawing calls, from each of a set of Surface states ----
RasterOps == {"COPY", "XOR", "AND", "OR"}

\* framebuffer contents before the call
DrawBuffers ==
  { ZeroBuffer,
    [k \in 0 .. kFramebufferBytes - 1 |-> 255],
    [k \in 0 .. kFramebufferBytes - 1 |-> IF k % 2 = 0 THEN 165 ELSE 128] }

\* clip rects before the call (SetClip results on the 9 x 2 frame)
DrawClips ==
  { MkRect(0, 0, 9, 2), MkRect(1, 0, 8, 1), MkRect(8, 1, 1, 1), EmptyRect }

\* dirty rects before the call
DrawDirties == { EmptyRect, MkRect(2, 0, 1, 1) }

PixelPoints ==
  { Pt(0, 0), Pt(7, 0), Pt(8, 0), Pt(8, 1), Pt(2, 0), Pt(9, 0), Pt(0, 2),
    Pt(-1, 0), Pt(0, -1), Pt(32767, 32767), Pt(-32768, -32768) }

LineStarts ==
  { Pt(0, 0), Pt(7, 0), Pt(8, 1), Pt(10, 1), Pt(-2, 0), Pt(8, 3), Pt(3, -1),
    Pt(32767, 0), Pt(8, 32767), Pt(-32768, 0), Pt(-32766, 1), Pt(2, -32768) }

LineLengths == (-MaxSpan .. MaxSpan) \cup {-12, 12, -32767, 32767, -32768}

LineEnds ==
  { Pt(x, y) : x \in -1 .. MaxSpan, y \in -1 .. MaxSpan } \cup
  { Pt(8, 1), Pt(10, 0),
    Pt(32767, 32767), Pt(32765, 32766), Pt(-32768, -32768), Pt(-32766, -32765) }

\* color and raster op handed to DrawLine
LineInks == { <<"WHITE", "COPY">>, <<"WHITE", "XOR">> }

\* the pairs of end points no more than MaxLine steps apart
LinePairs ==
  { pair \in LineEnds \X LineEnds :
      /\ Abs(pair[2].x - pair[1].x) <= MaxLine
      /\ Abs(pair[2].y - pair[1].y) <= MaxLine }

\* clip rects on the 4 x 3 surface
TallClips == { MkRect(0, 0, 4, 3), MkRect(1, 0, 3, 3) }

\* the Surface before the call: bound to framebuffer 0 as 9 x 2 or as 4 x 3
DrawSurfaces ==
  { [Bind(DefaultSurface, 0, [w |-> 9, h |-> 2], 0) EXCEPT !.clip = clip, !.dirty = dirty] :
      clip \in DrawClips, dirty \in DrawDirties } \cup
  { [Bind(DefaultSurface, 0, [w |-> 4, h |-> 3], 0) EXCEPT !.clip = clip, !.dirty = dirty] :
      clip \in TallClips, dirty \in DrawDirties }

\* rects handed to DrawRect: inside the surfaces, across their edges, and
\* with extents and corners beyond the int16_t range
DrawRects ==
  { MkRect(0, 0, 4, 3), MkRect(1, 0, 3, 3), MkRect(1, 0, 1, 3), MkRect(2, 0, 2, 3),
    MkRect(0, 0, 3, 2), MkRect(0, 1, 4, 1), MkRect(1, 1, 1, 1), MkRect(0, 0, 9, 2),
    MkRect(8, 0, 1, 2), MkRect(2, 0, 7, 1), MkRect(8, 1, 1, 1),
    MkRect(6, 0, 9, 2), MkRect(-1, -1, 3, 3), MkRect(0, 0, 0, 2),
    MkRect(5, 0, 40000, 1), MkRect(2, 1, 3, 40000), MkRect(0, 0, 65535, 65535),
    MkRect(32767, 32767, 2, 2), MkRect(-32768, -32768, 32770, 32770) }

\* source bitmaps handed to DrawBitmap: 9 x 2 and 3 x 2 patterns (the second
\* with its padding bits set), a null pointer, sizes with a zero side, and a
\* row 32770 wide with its first and its last bit set
SourceBitmaps ==
  << [bits |-> Source([k \in 0 .. 3 |-> IF k = 0 THEN 165 ELSE IF k = 1 THEN 128
                                        ELSE IF k = 2 THEN 90 ELSE 0]),
      size |-> [w |-> 9, h |-> 2]],
     [bits |-> Source([k \in 0 .. 1 |-> IF k = 0 THEN 191 ELSE 95]),
      size |-> [w |-> 3, h |-> 2]],
     [bits |-> NullSource, size |-> [w |-> 3, h |-> 2]],
     [bits |-> Source([k \in 0 .. 1 |-> 255]), size |-> [w |-> 0, h |-> 2]],
     [bits |-> Source([k \in 0 .. 1 |-> 255]), size |-> [w |-> 3, h |-> 0]],
     [bits |-> Source([k \in 0 .. 4096 |->
                        IF k = 0 THEN 128 ELSE IF k = 4096 THEN 64 ELSE 0]),
      size |-> [w |-> 32770, h |-> 1]] >>

BitmapStarts == { Pt(0, 0), Pt(1, 0), Pt(-1, -1), Pt(7, 1), Pt(2, 1), Pt(32767, 0) }

\* where the 32770 wide row is drawn
WideBitmapStarts == { Pt(2, 0), Pt(32767, 0) }

\* an initialized Present (9 x 2, synchronous backend) after some drawing
DrawInit ==
  /\ cfg = MkConfig(9, 2, "FULL", 0, FALSE)
  /\ backend = [init_status |-> "OK", caps |-> DefaultCaps]
  /\ caps = DefaultCaps
  /\ initialized = TRUE
  /\ transfer_in_progress = FALSE
  /\ in_frame = FALSE
  /\ draw_buffer_index = 0
  /\ \E buf \in DrawBuffers : framebuffers = [ZeroFramebuffers EXCEPT ![0] = buf]
  /\ surface \in DrawSurfaces
  /\ pc = "idle"
  /\ frame = DefaultFrame
  /\ mode = "AUTO"
  /\ hw_bits = NullBits
  /\ bk_called = NoCall
  /\ bk_status = "NONE"
  /\ ret = "NONE"
  /\ flag_log = <<>>
  /\ call = NoSurfaceCall

DrawNext ==
  \/ call.n = 0 /\ \E point \in PixelPoints, color \in Colors, raster_op \in RasterOps :
       DrawPixelCall(point, color, raster_op)
  \/ call.n = 0 /\ \E point \in LineStarts, length \in LineLengths, color \in Colors,
                      raster_op \in RasterOps :
       DrawHLineCall(point, length, color, raster_op)
  \/ call.n = 0 /\ \E point \in LineStarts, length \in LineLengths, color \in Colors,
                      raster_op \in RasterOps :
       DrawVLineCall(point, length, color, raster_op)
  \/ call.n = 0 /\ \E pair \in LinePairs, ink \in LineInks :
       DrawLineCall(pair[1], pair[2], ink[1], ink[2])
  \/ call.n = 0 /\ \E rect \in DrawRects, color \in Colors, raster_op \in RasterOps :
       DrawRectCall(rect, color, raster_op)
  \/ call.n = 0 /\ \E point \in BitmapStarts, source \in 1 .. Len(SourceBitmaps) - 1,
                      color \in Colors, raster_op \in RasterOps :
       DrawBitmapCall(point, source, SourceBitmaps[source].bits,
                      SourceBitmaps[source].size, color, raster_op)
  \/ call.n = 0 /\ \E point \in WideBitmapStarts, raster_op \in DrawOps :
       LET source == Len(SourceBitmaps)
       IN DrawBitmapCall(point, source, SourceBitmaps[source].bits,
                         SourceBitmaps[source].size, "WHITE", raster_op)
  \/ call.n = 0 /\ \E point \in TextStarts, text \in Texts,
                      style \in TextStyles \cup {OwnFontStyle} :
       DrawTextCall(point, text, style)
  \/ call.n = 0 /\ \E point \in TextStarts, text \in SeqTexts,
                      style \in SeqStyles \cup {OwnFontStyle}, raster_op \in RasterOps :
       DrawTextOpCall(point, text, style, raster_op)
  \/ call.n = 0 /\ \E point \in TextStarts, text \in Texts,
                      style \in TextStyles \cup {OwnFontStyle} :
       DrawTextTopLeftCall(point, text, style)
  \/ call.n = 0 /\ \E point \in TextStarts, text \in SeqTexts,
                      style \in SeqStyles \cup {OwnFontStyle}, raster_op \in RasterOps :
       DrawTextTopLeftOpCall(point, text, style, raster_op)

DrawSpec == DrawInit /\ [][DrawNext]_vars

\* ---- the geometry functions, applied to pairs of rects ----
\* one call of geometry function fn on the rects a and b
GeometryCall(fn, a, b, out) ==
  /\ call.n = 0
  /\ call' = [fn |-> fn, args |-> <<a, b>>, pixels |-> <<>>, result |-> out, n |-> 1]
  /\ UNCHANGED <<present_only, framebuffers, surface>>

IntersectRectCall(a, b) == GeometryCall("intersect_rect", a, b, intersect_rect(a, b))

UnionRectCall(a, b) == GeometryCall("union_rect", a, b, union_rect(a, b))

\* field values of the rects: the ends of int16_t and uint16_t and small ones
RectXs == {-32768, -2, 0, 3, 32767}

RectYs == {-32768, 0, 32767}

RectWs == {0, 1, 4, 65535}

RectHs == {0, 1, 65535}

Rects == { MkRect(x, y, w, h) : x \in RectXs, y \in RectYs, w \in RectWs, h \in RectHs }

RectInit ==
  /\ DrawInit
  /\ framebuffers = ZeroFramebuffers
  /\ surface = BindDrawSurface(DefaultSurface, 0, cfg)

RectNext ==
  \/ call.n = 0 /\ \E a \in Rects, b \in Rects : IntersectRectCall(a, b)
  \/ call.n = 0 /\ \E a \in Rects, b \in Rects : UnionRectCall(a, b)

RectSpec == RectInit /\ [][RectNext]_vars

\* ---- drawing on a Surface that is not bound ----
\* a Surface with no memory to draw on, as Clear tests it: bits_ is null, or
\* the width, the height or the stride is 0
Unbound(s) ==
  s.bits = NullBits \/ s.size.w = 0 \/ s.size.h = 0 \/ s.stride_bytes = 0

\* a drawing call on such a Surface; result: whether the bytes the call leaves
\* differ from the bytes it found
DrawUnbound(fn, args, out) ==
  /\ Unbound(surface)
  /\ SurfaceCallWith(fn, args, <<>>, <<out[1] # DrawBuffer>>, out)

\* inks of the calls on an unbound Surface: each would change a zero bit
UnboundInks == { <<"WHITE", "COPY">>, <<"WHITE", "XOR">> }

\* a Surface{} next to a Present at rest; the memory holds any of the buffers
UnboundInit ==
  /\ cfg = MkConfig(9, 2, "FULL", 0, FALSE)
  /\ backend = [init_status |-> "OK", caps |-> DefaultCaps]
  /\ caps = DefaultCaps
  /\ initialized = TRUE
  /\ transfer_in_progress = FALSE
  /\ in_frame = FALSE
  /\ draw_buffer_index = 0
  /\ \E buf \in DrawBuffers : framebuffers = [ZeroFramebuffers EXCEPT ![0] = buf]
  /\ surface = DefaultSurface
  /\ pc = "idle"
  /\ frame = DefaultFrame
  /\ mode = "AUTO"
  /\ hw_bits = NullBits
  /\ bk_called = NoCall
  /\ bk_status = "NONE"
  /\ ret = "NONE"
  /\ flag_log = <<>>
  /\ call = NoSurfaceCall

UnboundNext ==
  \/ \E size \in SeqSizes : BindCall(NullBits, size, 0)
  \/ \E h \in {0, 2}, stride_bytes \in {0, 1} :
       BindCall(0, [w |-> 0, h |-> h], stride_bytes)
  \/ \E stride_bytes \in {0, 1} : BindCall(0, [w |-> 9, h |-> 0], stride_bytes)
  \/ \E rect \in SeqRects : SetClipCall(rect)
  \/ \E rect \in SeqRects : AddDirtyRectCall(rect)
  \/ \E color \in Colors :
       DrawUnbound("Clear", <<color>>, Clear(surface, DrawBuffer, color))
  \/ \E point \in SeqPoints, ink \in UnboundInks :
       DrawUnbound("DrawPixel", <<point, ink[1], ink[2]>>,
                   DrawPixel(surface, DrawBuffer, point, ink[1], ink[2]))
  \/ \E point \in SeqPoints, length \in SeqLengths, ink \in UnboundInks :
       DrawUnbound("DrawHLine", <<point, length, ink[1], ink[2]>>,
                   DrawHLine(surface, DrawBuffer, point, length, ink[1], ink[2]))
  \/ \E point \in SeqPoints, length \in SeqLengths, ink \in UnboundInks :
       DrawUnbound("DrawVLine", <<point, length, ink[1], ink[2]>>,
                   DrawVLine(surface, DrawBuffer, point, length, ink[1], ink[2]))
  \/ \E p0 \in SeqPoints, p1 \in SeqPoints, ink \in UnboundInks :
       DrawUnbound("DrawLine", <<p0, p1, ink[1], ink[2]>>,
                   DrawLine(surface, DrawBuffer, p0, p1, ink[1], ink[2]))
  \/ \E rect \in SeqRects, ink \in UnboundInks :
       DrawUnbound("DrawRect", <<rect, ink[1], ink[2]>>,
                   DrawRect(surface, DrawBuffer, rect, ink[1], ink[2]))
  \/ \E rect \in SeqRects, ink \in UnboundInks :
       DrawUnbound("FillRect", <<rect, ink[1], ink[2]>>,
                   FillRect(surface, DrawBuffer, rect, ink[1], ink[2]))
  \/ \E center \in SeqPoints, ink \in UnboundInks :
       DrawUnbound("DrawCircle", <<center, 1, ink[1], ink[2]>>,
                   DrawCircle(surface, DrawBuffer, center, 1, ink[1], ink[2]))
  \/ \E point \in SeqPoints, ink \in UnboundInks :
       DrawUnbound("DrawBitmap", <<point, 1, SourceBitmaps[1].size, ink[1], ink[2]>>,
                   DrawBitmap(surface, DrawBuffer, point, SourceBitmaps[1].bits,
                              SourceBitmaps[1].size, ink[1], ink[2]))
  \/ \E point \in SeqPoints, text \in SeqTexts, style \in SeqStyles :
       DrawUnbound("DrawText", <<point, text, style>>,
                   DrawText(surface, DrawBuffer, point, text, style))
  \/ \E point \in SeqPoints, text \in SeqTexts, style \in SeqStyles :
       DrawUnbound("DrawText", <<point, text, style, "XOR">>,
                   DrawTextOp(surface, DrawBuffer, point, text, style, "XOR"))
  \/ \E point \in SeqPoints, text \in SeqTexts, style \in SeqStyles :
       DrawUnbound("DrawTextTopLeft", <<point, text, style>>,
                   DrawTextTopLeft(surface, DrawBuffer, point, text, style))
  \/ \E point \in SeqPoints, text \in SeqTexts, style \in SeqStyles :
       DrawUnbound("DrawTextTopLeft", <<point, text, style, "XOR">>,
                   DrawTextTopLeftOp(surface, DrawBuffer, point, text, style, "XOR"))

UnboundSpec == UnboundInit /\ [][UnboundNext]_vars

\* ---- FillRect on one Surface, read back by DrawBitmap on a second ----
\* sizes of the two Surfaces: two that fit kFramebufferBytes, and a row one
\* pixel wider than an int16_t can count, over WideBytes of memory
WideSize == [w |-> 32768, h |-> 1]

\* the bytes of a Surface of that size with the default stride
WideBytes == default_stride(WideSize) * WideSize.h

StencilSizes == { [w |-> 9, h |-> 2], [w |-> 4, h |-> 3], WideSize }

\* rects handed to SetClip before the fill
StencilClips == { MkRect(0, 0, 65535, 65535), MkRect(1, 0, 8, 1), MkRect(2, 1, 2, 2) }

\* rects handed to FillRect
StencilRects ==
  { MkRect(0, 0, 65535, 65535), MkRect(1, 0, 3, 2), MkRect(-1, -1, 3, 3),
    MkRect(8, 1, 4, 4), MkRect(3, 0, 1, 3), MkRect(0, 0, 0, 2), MkRect(0, 0, 9, 2) }

\* two buffers of zero bytes that hold a Surface of the given size
StencilMemory(size) ==
  [i \in {0, 1} |->
     [k \in 0 .. (IF size = WideSize THEN WideBytes ELSE kFramebufferBytes) - 1 |-> 0]]

\* Surface A after Bind(buffer 0, size, 0), Clear(BLACK) and SetClip(rect);
\* the buffer of the second Surface is cleared to BLACK as well
StencilInit ==
  /\ cfg = MkConfig(9, 2, "FULL", 0, FALSE)
  /\ backend = [init_status |-> "OK", caps |-> DefaultCaps]
  /\ caps = DefaultCaps
  /\ initialized = TRUE
  /\ transfer_in_progress = FALSE
  /\ in_frame = FALSE
  /\ draw_buffer_index = 0
  /\ \E size \in StencilSizes, rect \in StencilClips :
       /\ framebuffers = StencilMemory(size)
       /\ surface = SetClip(Clear(Bind(DefaultSurface, 0, size, 0),
                                  StencilMemory(size)[0], "BLACK")[2], rect)
  /\ pc = "idle"
  /\ frame = DefaultFrame
  /\ mode = "AUTO"
  /\ hw_bits = NullBits
  /\ bk_called = NoCall
  /\ bk_status = "NONE"
  /\ ret = "NONE"
  /\ flag_log = <<>>
  /\ call = NoSurfaceCall

\* FillRect on A, then the second Surface is bound to buffer 1 with A's size
\* and draws A's buffer as a bitmap (source number 0) at (0, 0)
StencilNext ==
  \/ call.n = 0 /\ \E rect \in StencilRects : FillRectCall(rect, "WHITE", "COPY")
  \/ call.fn = "FillRect" /\ BindCall(1, surface.size, 0)
  \/ call.fn = "Bind" /\
       DrawBitmapCall([x |-> 0, y |-> 0], 0, FramebufferSource(0), surface.size,
                      "WHITE", "COPY")

StencilSpec == StencilInit /\ [][StencilNext]_vars

\* ---- drawing calls since the last Bind, with the rects they touched ----
\* the smallest rect that holds every non-empty rect of the set, over the integers
BoundingBox(rects) ==
  LET full == { r \in rects : r.w > 0 /\ r.h > 0 }
  IN IF full = {} THEN EmptyRect
     ELSE LET left   == CHOOSE v \in { r.x : r \in full } : \A r \in full : v <= r.x
              top    == CHOOSE v \in { r.y : r \in full } : \A r \in full : v <= r.y
              right  == CHOOSE v \in { r.x + r.w : r \in full } :
                          \A r \in full : v >= r.x + r.w
              bottom == CHOOSE v \in { r.y + r.h : r \in full } :
                          \A r \in full : v >= r.y + r.h
          IN MkRect(left, top, right - left, bottom - top)

\* the bounding box of the rects touched by the calls so far
TouchedSoFar == IF call.result = <<>> THEN EmptyRect ELSE call.result[1]

\* the rects the calls of DrawPixel for the points pts touch: one pixel each
\* for the points in the clip
TouchedPoints(s, pts) ==
  { MkRect(pts[i].x, pts[i].y, 1, 1) : i \in { j \in 1 .. Len(pts) : InClip(s, pts[j]) } }

\* the rects the line calls touch: their clipped spans
TouchedSpans(s, lines) ==
  { IF lines[i].fn = "DrawHLine" THEN HLineSpan(s, lines[i].point, lines[i].length)
                                 ELSE VLineSpan(s, lines[i].point, lines[i].length) :
      i \in 1 .. Len(lines) }

\* the DrawHLine calls of FillRect, one for each row of the clipped rect
FillLines(s, rect) ==
  LET clipped == intersect_rect(rect, s.clip)
  IN IF rect_empty(clipped) THEN <<>>
     ELSE [i \in 1 .. clipped.h |->
             LineCall("DrawHLine", clipped.x, ToInt16(clipped.y + i - 1),
                      ToInt16(clipped.w))]

\* the rects the FillRect calls for the rects of the sequence touch
TouchedRects(s, rects) ==
  UNION { TouchedSpans(s, FillLines(s, rects[i])) : i \in 1 .. Len(rects) }

\* ink of DrawBitmap drawing the Surface's own buffer, one pixel to the right
OwnBitmapInks == { <<"WHITE", "COPY">> }

\* a Surface call that touches the given rects; result keeps the bounding box
\* of everything touched since the Bind
TouchingCall(fn, args, touched, out) ==
  SurfaceCallWith(fn, args, <<>>, <<BoundingBox({TouchedSoFar} \cup touched)>>, out)

\* inks of the tracked calls
TouchInks == { <<"WHITE", "XOR">>, <<"BLACK", "COPY">> }

\* a Surface just bound to framebuffer 0; framebuffer 1 keeps a copy of the
\* bytes it held then
TouchInit ==
  /\ cfg = MkConfig(9, 2, "FULL", 0, FALSE)
  /\ backend = [init_status |-> "OK", caps |-> DefaultCaps]
  /\ caps = DefaultCaps
  /\ initialized = TRUE
  /\ transfer_in_progress = FALSE
  /\ in_frame = FALSE
  /\ draw_buffer_index = 0
  /\ \E buf \in DrawBuffers : framebuffers = [i \in {0, 1} |-> buf]
  /\ \E size \in SeqSizes : surface = Bind(DefaultSurface, 0, size, 0)
  /\ pc = "idle"
  /\ frame = DefaultFrame
  /\ mode = "AUTO"
  /\ hw_bits = NullBits
  /\ bk_called = NoCall
  /\ bk_status = "NONE"
  /\ ret = "NONE"
  /\ flag_log = <<>>
  /\ call = NoSurfaceCall

TouchNext ==
  \/ \E rect \in SeqRects :
       TouchingCall("SetClip", <<rect>>, {}, <<DrawBuffer, SetClip(surface, rect)>>)
  \/ TouchingCall("ResetClip", <<>>, {}, <<DrawBuffer, ResetClip(surface)>>)
  \/ TouchingCall("Clear", <<"WHITE">>, {Bounds(surface)},
                  Clear(surface, DrawBuffer, "WHITE"))
  \/ \E point \in SeqPoints, ink \in TouchInks :
       TouchingCall("DrawPixel", <<point, ink[1], ink[2]>>,
                    TouchedPoints(surface, <<point>>),
                    DrawPixel(surface, DrawBuffer, point, ink[1], ink[2]))
  \/ \E point \in SeqPoints, length \in SeqLengths, ink \in TouchInks :
       TouchingCall("DrawHLine", <<point, length, ink[1], ink[2]>>,
                    TouchedSpans(surface, <<LineCall("DrawHLine", point.x, point.y, length)>>),
                    DrawHLine(surface, DrawBuffer, point, length, ink[1], ink[2]))
  \/ \E point \in SeqPoints, length \in SeqLengths :
       TouchingCall("DrawVLine", <<point, length, "WHITE", "XOR">>,
                    TouchedSpans(surface, <<LineCall("DrawVLine", point.x, point.y, length)>>),
                    DrawVLine(surface, DrawBuffer, point, length, "WHITE", "XOR"))
  \/ \E p0 \in SeqPoints, p1 \in SeqPoints :
       TouchingCall("DrawLine", <<p0, p1, "WHITE", "XOR">>,
                    TouchedPoints(surface, LinePoints(p0, p1)),
                    DrawLine(surface, DrawBuffer, p0, p1, "WHITE", "XOR"))
  \/ \E rect \in SeqRects :
       TouchingCall("DrawRect", <<rect, "WHITE", "XOR">>,
                    IF rect_empty(rect) THEN {} ELSE TouchedSpans(surface, RectLines(rect)),
                    DrawRect(surface, DrawBuffer, rect, "WHITE", "XOR"))
  \/ \E rect \in SeqRects :
       TouchingCall("FillRect", <<rect, "WHITE", "XOR">>,
                    TouchedSpans(surface, FillLines(surface, rect)),
                    FillRect(surface, DrawBuffer, rect, "WHITE", "XOR"))
  \/ \E center \in SeqPoints :
       TouchingCall("DrawCircle", <<center, 1, "WHITE", "XOR">>,
                    TouchedPoints(surface, CircleLoop(center, 1, 0, 0)),
                    DrawCircle(surface, DrawBuffer, center, 1, "WHITE", "XOR"))
  \/ \E point \in SeqPoints :
       TouchingCall("DrawBitmap", <<point, 1, SourceBitmaps[1].size, "WHITE", "XOR">>,
                    TouchedPoints(surface, BitmapPoints(point, SourceBitmaps[1].bits,
                                                        SourceBitmaps[1].size)),
                    DrawBitmap(surface, DrawBuffer, point, SourceBitmaps[1].bits,
                               SourceBitmaps[1].size, "WHITE", "XOR"))
  \/ \E ink \in OwnBitmapInks :
       TouchingCall("DrawBitmap", <<Pt(1, 0), 0, surface.size, ink[1], ink[2]>>,
                    TouchedPoints(surface,
                                  DrawBitmapPoints(surface, DrawBuffer, Pt(1, 0),
                                                   FramebufferSource(surface.bits),
                                                   surface.size, ink[1], ink[2])),
                    DrawBitmap(surface, DrawBuffer, Pt(1, 0),
                               FramebufferSource(surface.bits), surface.size,
                               ink[1], ink[2]))
  \/ TouchingCall("DrawText", <<Pt(0, 0), Text(<<65, NewLine, 66>>), PlainStyle>>,
                  TouchedRects(surface,
                               DrawTextRects(surface, DrawBuffer, Pt(0, 0),
                                             Text(<<65, NewLine, 66>>), PlainStyle)),
                  DrawText(surface, DrawBuffer, Pt(0, 0), Text(<<65, NewLine, 66>>),
                           PlainStyle))
  \/ TouchingCall("DrawTextTopLeft", <<Pt(0, 0), Text(<<65, 66>>), OwnFontStyle>>,
                  TouchedRects(surface,
                               DrawTextRects(surface, DrawBuffer,
                                             TopLeftBaseline(Pt(0, 0), OwnFontStyle),
                                             Text(<<65, 66>>), OwnFontStyle)),
                  DrawTextTopLeft(surface, DrawBuffer, Pt(0, 0), Text(<<65, 66>>),
                                  OwnFontStyle))

TouchSpec == TouchInit /\ [][TouchNext]_vars

\* ---- the copy between the two framebuffers, applied to a region ----
\* one call of CopyRegionBetweenBuffers(src_index, dst_index, region)
CopyCall(src_index, dst_index, region) ==
  /\ call.n = 0
  /\ framebuffers' = CopyRegionBetweenBuffers(framebuffers, src_index, dst_index,
                                              region, cfg)
  /\ call' = [fn |-> "CopyRegionBetweenBuffers",
               args |-> <<src_index, dst_index, region>>,
               pixels |-> <<>>, result |-> <<>>, n |-> 1]
  /\ UNCHANGED <<present_only, surface>>

\* frames of kFramebufferBytes bytes: two rows of two bytes, one row of four
CopyConfigs == { MkConfig(9, 2, "FULL", 0, FALSE), MkConfig(25, 1, "FULL", 0, FALSE) }

\* regions handed to the copy
CopyRegions ==
  { MkRect(0, 0, 9, 2), MkRect(8, 1, 4, 4), MkRect(1, 0, 7, 1), MkRect(7, 0, 2, 1),
    MkRect(0, 1, 1, 1), MkRect(-2, -2, 1, 1), MkRect(0, 0, 0, 2), MkRect(9, 0, 3, 3),
    MkRect(-3, -1, 5, 2), MkRect(0, 0, 65535, 65535), MkRect(17, 0, 8, 1),
    MkRect(15, 0, 2, 1), MkRect(24, 0, 1, 1), MkRect(32767, 32767, 65535, 65535) }

\* an initialized Present whose two framebuffers hold any of the buffers
CopyInit ==
  /\ cfg \in CopyConfigs
  /\ backend = [init_status |-> "OK", caps |-> MkCaps(TRUE, TRUE, TRUE, TRUE)]
  /\ caps = backend.caps
  /\ initialized = TRUE
  /\ transfer_in_progress = FALSE
  /\ in_frame = FALSE
  /\ draw_buffer_index \in {0, 1}
  /\ framebuffers \in [{0, 1} -> DrawBuffers]
  /\ surface = BindDrawSurface(DefaultSurface, draw_buffer_index, cfg)
  /\ pc = "idle"
  /\ frame = DefaultFrame
  /\ mode = "AUTO"
  /\ hw_bits = NullBits
  /\ bk_called = NoCall
  /\ bk_status = "NONE"
  /\ ret = "NONE"
  /\ flag_log = <<>>
  /\ call = NoSurfaceCall

\* the copy as SwapToNextDrawBuffer calls it: from the draw buffer to the other
CopyNext ==
  call.n = 0 /\ \E region \in CopyRegions :
    CopyCall(draw_buffer_index, NextBuffer(draw_buffer_index), region)

CopySpec == CopyInit /\ [][CopyNext]_vars

\* ---- drawing after construction, up to the first successful submission ----
\* the owning context has just got OK from a PresentFrame that reached the backend
Submitted == pc = "idle" /\ ret = "OK" /\ bk_called.fn = "Present"

\* an initialized Present on a backend with partial_update
SubmitInit == Init /\ initialized /\ caps.partial_update

SubmitNext ==
  \/ ~Submitted /\ \E m \in PresentModes : PresentFrame(m)
  \/ ~Submitted /\ \E r \in ExplicitRects : PresentFrameRect(r)
  \/ SubmitFrame_Present
  \/ SubmitFrame_Store
  \/ SubmitFrame_Swap
  \/ OnTransferDone
  \/ ~Submitted /\ \E p \in DrawPoints, c \in Colors, o \in DrawOps :
                      SurfaceDrawPixel(p, c, o)

SubmitSpec == SubmitInit /\ [][SubmitNext]_vars

\* ---- a Present whose frame is wider than an int16_t can count ----
\* kFramebufferBytes is a template parameter: these frames are constructed by
\* the instantiation whose capacity is FramebufferBytes of the frame
LongRowFrames ==
  { MkConfig(32769, 1, "FULL", 0, FALSE), MkConfig(32767, 1, "FULL", 0, FALSE) }

\* framebuffers_{} of that instantiation
LongRowMemory(c) == [i \in {0, 1} |-> [k \in 0 .. FramebufferBytes(c) - 1 |-> 0]]

LongRowClips ==
  { MkRect(0, 0, 65535, 65535), MkRect(32760, 0, 20, 1), MkRect(32766, 0, 2, 1) }

LongRowPoints == { Pt(-1, 0), Pt(0, 0), Pt(32765, 0), Pt(32766, 0), Pt(32767, 0) }

LongRowLengths == { 1, 2, 3, -2 }

LongRowInks == { <<"WHITE", "COPY">>, <<"WHITE", "XOR">> }

\* the Present after its constructor: framebuffer 0 bound, both buffers zero,
\* the full frame dirty
LongRowInit ==
  /\ \E c \in LongRowFrames :
       /\ cfg = c
       /\ framebuffers = LongRowMemory(c)
       /\ surface = AddDirtyRect(BindDrawSurface(DefaultSurface, 0, c), FullRect(c))
  /\ backend = [init_status |-> "OK", caps |-> DefaultCaps]
  /\ caps = DefaultCaps
  /\ initialized = TRUE
  /\ transfer_in_progress = FALSE
  /\ in_frame = FALSE
  /\ draw_buffer_index = 0
  /\ pc = "idle"
  /\ frame = DefaultFrame
  /\ mode = "AUTO"
  /\ hw_bits = NullBits
  /\ bk_called = [fn |-> "Init", arg |-> 0]
  /\ bk_status = "OK"
  /\ ret = "NONE"
  /\ flag_log = <<>>
  /\ call = NoSurfaceCall

\* BYTE_INDEX of PlotUnchecked as an offset from bits_: the std::size_t sum
\* wraps, so that bits_[BYTE_INDEX] is the byte at this signed offset
PlotOffset(s, point) == point.y * s.stride_bytes + CDiv(point.x, 8)

\* the plot writes a byte of the bound buffer
PlotInside(s, buf, point) == PlotOffset(s, point) \in DOMAIN buf

\* the (x, y) DrawHLine hands to PlotUnchecked, in order: cx narrowed to int16_t
HLinePlots(s, point, length) ==
  LET rect == HLineSpan(s, point, length)
  IN [i \in 1 .. rect.w |-> Pt(ToInt16(rect.x + i - 1), rect.y)]

\* the buffer after the first count plots of the sequence, a plot whose byte
\* is not in the buffer left out
RECURSIVE PlotInsideOnly(_, _, _, _, _, _)
PlotInsideOnly(s, buf, plots, count, color, raster_op) ==
  IF count = 0 THEN buf
  ELSE LET before == PlotInsideOnly(s, buf, plots, count - 1, color, raster_op)
       IN IF PlotInside(s, buf, plots[count])
            THEN PlotUnchecked(before, s.stride_bytes, plots[count].x, plots[count].y,
                               color, raster_op)
            ELSE before

\* the calls before the first plot whose byte is not in the buffer
BeforeWild(s, buf, plots) ==
  CHOOSE k \in 0 .. Len(plots) - 1 :
    /\ ~PlotInside(s, buf, plots[k + 1])
    /\ \A i \in 1 .. k : PlotInside(s, buf, plots[i])

\* a recorded call has written outside the bound buffer
WildWrite ==
  \E i \in DOMAIN call.pixels : ~PlotInside(surface, DrawBuffer, call.pixels[i])

\* GetSurface().DrawHLine, the arguments of PlotUnchecked recorded in
\* call.pixels. A plot outside the buffer is undefined behaviour: the byte
\* written lies before framebuffers_[0], in memory that is no variable here,
\* so that either the call goes on (the other plots land, the span is marked
\* dirty) or the program stops at that write
LongRowHLine(point, length, color, raster_op) ==
  LET plots == HLinePlots(surface, point, length)
  IN IF \A i \in DOMAIN plots : PlotInside(surface, DrawBuffer, plots[i])
       THEN SurfaceCallWith("DrawHLine", <<point, length, color, raster_op>>, plots, <<>>,
                            DrawHLine(surface, DrawBuffer, point, length, color, raster_op))
       ELSE /\ pc = "idle"
            /\ call.n < MaxCalls
            /\ \E stops \in BOOLEAN :
                 /\ surface' = IF stops THEN surface
                               ELSE MarkDirty(surface, HLineSpan(surface, point, length))
                 /\ framebuffers' =
                      [framebuffers EXCEPT ![surface.bits] =
                         PlotInsideOnly(surface, DrawBuffer, plots,
                                        IF stops THEN BeforeWild(surface, DrawBuffer, plots)
                                        ELSE Len(plots),
                                        color, raster_op)]
            /\ call' = [fn |-> "DrawHLine", args |-> <<point, length, color, raster_op>>,
                        pixels |-> plots, result |-> <<>>, n |-> call.n + 1]
            /\ UNCHANGED present_only

\* GetSurface().DrawPixel, the argument of PlotUnchecked recorded
LongRowPixel(point, color, raster_op) ==
  SurfaceCallWith("DrawPixel", <<point, color, raster_op>>,
                  IF InClip(surface, point) THEN <<point>> ELSE <<>>, <<>>,
                  DrawPixel(surface, DrawBuffer, point, color, raster_op))

LongRowNext ==
  \/ ~WildWrite /\ \E rect \in LongRowClips : SetClipCall(rect)
  \/ ~WildWrite /\ \E point \in LongRowPoints, ink \in LongRowInks :
                     LongRowPixel(point, ink[1], ink[2])
  \/ ~WildWrite /\ \E point \in LongRowPoints, length \in LongRowLengths,
                      ink \in LongRowInks :
                     LongRowHLine(point, length, ink[1], ink[2])

LongRowSpec == LongRowInit /\ [][LongRowNext]_vars

\* ---- asynchronous submission with a backend that signals each transfer ----
\* the completion signal of the transfer the backend has accepted: it comes
\* once per accepted frame, at any point after backend Present took the frame
TransferDone == hw_bits # NullBits /\ OnTransferDone

\* an initialized Present on a backend with async_present
LiveInit == Init /\ initialized /\ caps.async_present

LiveNext ==
  \/ \E m \in PresentModes : PresentFrame(m)
  \/ \E r \in ExplicitRects : PresentFrameRect(r)
  \/ SubmitFrame_Present
  \/ SubmitFrame_Store
  \/ SubmitFrame_Swap
  \/ TransferDone

\* a SubmitFrame that has started runs to its return, and the completion
\* signal of an accepted frame arrives
LiveSpec ==
  /\ LiveInit /\ [][LiveNext]_vars
  /\ WF_vars(SubmitFrame_Present \/ SubmitFrame_Store \/ SubmitFrame_Swap)
  /\ WF_vars(TransferDone)

(***************************************************************************)
(* Properties                                                              *)
(***************************************************************************)
AsyncReady == initialized /\ caps.async_present

\* a step of PresentFrame, by mode or by explicit rect
PresentFrameStep ==
  \/ \E m \in PresentModes : PresentFrame(m)
  \/ \E r \in ExplicitRects : PresentFrameRect(r)

\* the step handed SubmitFrame a non-empty region
SubmitsRegion == ~rect_empty(frame'.dirty)

\* the fields OnTransferDone must leave alone
owner_fields ==
  <<cfg, caps, framebuffers, surface, draw_buffer_index, initialized, in_frame>>

\* C1: on an async-capable backend that accepts the frame, after a PresentFrame
\* that submitted a region IsTransferInProgress() is true until OnTransferDone;
\* a further PresentFrame before it returns BUSY; after OnTransferDone the
\* flag is false and the next PresentFrame is submitted and returns OK.
C1_AsyncHandshake ==
  /\ [](pc = "idle" /\ hw_bits # NullBits => IsTransferInProgress)
  /\ [][ /\ (AsyncReady /\ hw_bits # NullBits /\ pc = "idle"
               /\ PresentFrameStep /\ SubmitsRegion
             => ret' = "BUSY" /\ bk_called' = NoCall /\ pc' = "idle")
         /\ (AsyncReady /\ OnTransferDone => ~IsTransferInProgress')
         /\ (AsyncReady /\ ~IsTransferInProgress /\ pc = "idle"
               /\ PresentFrameStep /\ SubmitsRegion
             => pc' = "present")
         /\ (pc = "present" /\ pc' # "present"
             => bk_called'.fn = "Present" /\ (pc' = "store" \/ ret' # "OK"))
         /\ (pc = "store" /\ pc' # "store" => IsTransferInProgress')
         /\ (pc = "swap" /\ pc' = "idle" => ret' = "OK")
       ]_vars

\* a second submission was accepted after the first one's completion signal
C1_Witness ==
  /\ AsyncReady /\ pc = "idle" /\ ret = "OK" /\ bk_called.fn = "Present"
  /\ draw_buffer_index = 0 /\ IsTransferInProgress /\ hw_bits = 1

\* C2: transfer_in_progress_ is true only while a transfer the backend has
\* accepted has not yet had its completion signal delivered.
C2_FlagOnlyWhileInFlight == transfer_in_progress => hw_bits # NullBits

\* C3: OnTransferDone returns OK exactly when the flag was true at its
\* compare-and-exchange and leaves it false, else STATE_ERR and no change; of
\* two calls for one in-flight transfer the first returns OK and the second
\* STATE_ERR; it never touches the owning context's state.
C3_OnTransferDone ==
  /\ [](AsyncReady =>
          \A i \in 2 .. Len(flag_log) :
            /\ flag_log[i] = "OK" => flag_log[i - 1] = "STORE"
            /\ flag_log[i - 1] = "STORE" => flag_log[i] = "OK"
            /\ flag_log[i - 1] = "OK" => flag_log[i] \in {"STATE_ERR", "STORE"})
  /\ [][ AsyncReady /\ OnTransferDone =>
           /\ flag_log'[Len(flag_log')] = (IF transfer_in_progress THEN "OK" ELSE "STATE_ERR")
           /\ transfer_in_progress' = FALSE
           /\ UNCHANGED owner_fields
           /\ UNCHANGED <<pc, frame, mode, ret, bk_called>>
       ]_vars

\* two consecutive completion signals for one transfer: OK, then STATE_ERR
C3_Witness ==
  /\ AsyncReady /\ flag_log = <<"OK", "STATE_ERR">>
  /\ ~transfer_in_progress /\ draw_buffer_index = 1

\* C4: while the flag is true a PresentFrame resolving to a non-empty region
\* returns BUSY, calls no backend method and changes nothing.
C4_BusyRejects ==
  [][ AsyncReady /\ transfer_in_progress /\ pc = "idle"
        /\ PresentFrameStep /\ SubmitsRegion
      => /\ ret' = "BUSY"
         /\ bk_called' = NoCall
         /\ pc' = "idle"
         /\ UNCHANGED owner_fields
         /\ UNCHANGED <<transfer_in_progress, hw_bits, flag_log>>
    ]_vars

C4_Witness ==
  /\ AsyncReady /\ transfer_in_progress /\ pc = "idle" /\ ret = "BUSY"
  /\ ~rect_empty(frame.dirty) /\ bk_called = NoCall

\* C5: draw_buffer_index_ is 0 or 1 and the Surface is bound to that buffer;
\* the index changes only at the swap of an asynchronous PresentFrame whose
\* backend Present returned OK, and that swap flips it.
C5_OneDrawTarget ==
  /\ [](initialized =>
          /\ draw_buffer_index \in {0, 1}
          /\ surface.bits = draw_buffer_index)
  /\ [][ /\ (draw_buffer_index' # draw_buffer_index =>
               /\ AsyncReady /\ pc = "swap" /\ pc' = "idle"
               /\ bk_called.fn = "Present" /\ ret' = "OK")
         /\ (pc = "swap" /\ pc' = "idle" =>
               draw_buffer_index' = 1 - draw_buffer_index)
       ]_vars

C5_Witness ==
  /\ initialized /\ draw_buffer_index = 1 /\ surface.bits = 1
  /\ pc = "idle" /\ ret = "OK"

\* C6: while a transfer is in flight and the owning context is between
\* PresentFrame calls the Surface is bound to the other buffer, and no step
\* changes a byte of the buffer the backend still reads.
C6_InFlightBufferUntouched ==
  /\ [](pc = "idle" /\ hw_bits # NullBits =>
          /\ surface.bits = 1 - hw_bits
          /\ draw_buffer_index = 1 - hw_bits)
  /\ [][ hw_bits # NullBits => framebuffers'[hw_bits] = framebuffers[hw_bits] ]_vars

\* drawing went on in buffer 1 while buffer 0, with other content, is read
C6_Witness ==
  /\ pc = "idle" /\ hw_bits = 0 /\ surface.bits = 1
  /\ framebuffers[1] # framebuffers[0] /\ ~rect_empty(surface.dirty)

\* the constructor's preconditions, as the claim lists them
ConstructionFails ==
  \/ cfg.width = 0
  \/ cfg.height = 0
  \/ (cfg.buffer_mode = "PAGE" /\ cfg.page_rows = 0)
  \/ ((cfg.width + 7) \div 8) * cfg.height > kFramebufferBytes
  \/ backend.init_status # "OK"

\* C7: after a failed construction every Present operation returns INIT_ERR,
\* the instance never becomes initialized and backend Present, SetPowerSave
\* and SetContrast are never invoked.
C7_FailedConstruction ==
  ConstructionFails =>
    /\ ~initialized
    /\ ret \in {"NONE", "INIT_ERR"}
    /\ \A i \in 1 .. Len(flag_log) : flag_log[i] = "INIT_ERR"
    /\ bk_called.fn \in {"none", "Init"}
    /\ pc = "idle"

C7_Witness ==
  /\ ConstructionFails /\ backend.init_status = "OK"
  /\ ret = "INIT_ERR" /\ flag_log = <<"INIT_ERR", "INIT_ERR">>

\* C8: Present is initialized iff every precondition holds and backend Init
\* returns OK; Init is not called when an earlier check fails; right after a
\* successful construction the caps are the backend's, the index is 0, the
\* flags are false, the framebuffers are zero and the whole frame is dirty.
C8_Construction ==
  /\ initialized <=> ~ConstructionFails
  /\ (cfg.width = 0 \/ cfg.height = 0
        \/ (cfg.buffer_mode = "PAGE" /\ cfg.page_rows = 0)
        \/ ((cfg.width + 7) \div 8) * cfg.height > kFramebufferBytes)
     => bk_called.fn # "Init"
  /\ (initialized /\ bk_called.fn = "Init") =>
       /\ caps = backend.caps
       /\ draw_buffer_index = 0
       /\ ~transfer_in_progress
       /\ ~in_frame
       /\ \A i \in {0, 1} : \A k \in DOMAIN framebuffers[i] : framebuffers[i][k] = 0
       /\ DOMAIN framebuffers[0] = 0 .. kFramebufferBytes - 1
       /\ GetDirtyRect(surface) = MkRect(0, 0, cfg.width, cfg.height)

C8_Witness ==
  /\ initialized /\ bk_called.fn = "Init" /\ cfg.buffer_mode = "PAGE"
  /\ caps.async_present /\ flag_log = <<"STATE_ERR">>

\* the (mode, region) the claim's table gives a by-mode request m
ExpectedByMode(m) ==
  IF ~caps.partial_update THEN <<"FULL", MkRect(0, 0, cfg.width, cfg.height)>>
  ELSE IF m = "FULL" \/ (m = "AUTO" /\ ~cfg.enable_dirty_tracking)
    THEN <<"FULL", MkRect(0, 0, cfg.width, cfg.height)>>
  ELSE <<"DIRTY", intersect_rect(surface.dirty, MkRect(0, 0, cfg.width, cfg.height))>>

\* the (mode, region) the claim's table gives an explicit rect r
ExpectedByRect(r) ==
  IF ~caps.partial_update THEN <<"FULL", MkRect(0, 0, cfg.width, cfg.height)>>
  ELSE <<"DIRTY", intersect_rect(r, MkRect(0, 0, cfg.width, cfg.height))>>

\* C9: the (mode, region) PresentFrame hands to the backend: FULL with the
\* full frame without partial_update; with it FULL and AUTO-without-tracking
\* are FULL/full frame, AUTO-with-tracking and DIRTY are DIRTY with the
\* clipped dirty rect, an explicit rect is DIRTY with the clipped rect.
C9_ModeResolution ==
  [][ /\ \A m \in PresentModes :
           initialized /\ pc = "idle" /\ frame'.bits # NullBits /\ PresentFrame(m)
           => <<mode', frame'.dirty>> = ExpectedByMode(m)
      /\ \A r \in ExplicitRects :
           initialized /\ pc = "idle" /\ frame'.bits # NullBits /\ PresentFrameRect(r)
           => <<mode', frame'.dirty>> = ExpectedByRect(r)
      /\ (bk_called'.fn = "Present" /\ pc = "present"
          => frame' = frame /\ mode' = mode)
      /\ (initialized /\ ~caps.async_present /\ pc = "idle"
            /\ frame'.bits # NullBits /\ PresentFrameStep
          => bk_called'.fn = "Present")
    ]_vars

\* the backend was handed the one-pixel dirty rect as a DIRTY update
C9_Witness ==
  /\ initialized /\ caps.partial_update /\ bk_called.fn = "Present"
  /\ mode = "DIRTY" /\ frame.dirty = MkRect(0, 0, 1, 1)

\* a PresentFrame step that returned status st as a no-op
NoOpReturn(st) ==
  /\ ret' = st
  /\ bk_called' = NoCall
  /\ pc' = "idle"
  /\ UNCHANGED <<draw_buffer_index, transfer_in_progress, surface, framebuffers>>

\* C10 as stated: a DIRTY submission with an empty clipped dirty rect and an
\* explicit-rect submission with an empty clipped rect both return OK as no-ops.
C10_EmptyRegionReturnsOk ==
  [][ initialized =>
        /\ (caps.partial_update /\ pc = "idle"
              /\ rect_empty(intersect_rect(surface.dirty, MkRect(0, 0, cfg.width, cfg.height)))
              /\ PresentFrame("DIRTY")
            => NoOpReturn("OK"))
        /\ \A r \in ExplicitRects :
             (pc = "idle"
                /\ rect_empty(intersect_rect(r, MkRect(0, 0, cfg.width, cfg.height)))
                /\ PresentFrameRect(r)
              => NoOpReturn("OK"))
    ]_vars

\* C10 (amended): a DIRTY submission with an empty clipped dirty rect returns
\* OK and an explicit-rect submission with an empty clipped rect returns
\* ARG_ERR; both are no-ops that call no backend method.
C10_EmptyRegionNoOp ==
  [][ initialized =>
        /\ (caps.partial_update /\ pc = "idle"
              /\ rect_empty(intersect_rect(surface.dirty, MkRect(0, 0, cfg.width, cfg.height)))
              /\ PresentFrame("DIRTY")
            => NoOpReturn("OK"))
        /\ \A r \in ExplicitRects :
             (pc = "idle"
                /\ rect_empty(intersect_rect(r, MkRect(0, 0, cfg.width, cfg.height)))
                /\ PresentFrameRect(r)
              => NoOpReturn("ARG_ERR"))
    ]_vars

\* an empty explicit rect was refused inside an open frame, nothing dirty
C10_Witness ==
  /\ initialized /\ caps.partial_update /\ pc = "idle" /\ ret = "ARG_ERR"
  /\ in_frame /\ rect_empty(surface.dirty) /\ bk_called = NoCall

(***************************************************************************)
(* Properties: synchronous backends, failures, capabilities, frame pairing *)
(***************************************************************************)
SyncReady == initialized /\ ~caps.async_present

\* what a PresentFrame step on a synchronous backend does besides its status
SyncSubmitEffects ==
  /\ framebuffers' = framebuffers
  /\ draw_buffer_index' = 0
  /\ surface'.bits = surface.bits
  /\ (bk_called'.fn = "Present" /\ bk_status' = "OK" =>
        /\ ret' = "OK"
        /\ GetDirtyRect(surface') = MkRect(0, 0, 0, 0))
  /\ (bk_called'.fn = "Present" /\ bk_status' # "OK" =>
        /\ ret' = bk_status'
        /\ GetDirtyRect(surface') = GetDirtyRect(surface))
  /\ (bk_called'.fn # "Present" => surface' = surface)

\* C11 as stated: without async_present a PresentFrame whose backend Present
\* returns OK clears the dirty rect and leaves the index at 0 and the
\* framebuffers alone; one whose backend Present returns another status returns
\* it and leaves the dirty rect alone; the flag is never true and PresentFrame
\* never returns BUSY.
C11_SyncNeverBusy ==
  /\ [](SyncReady =>
          ~transfer_in_progress /\ draw_buffer_index = 0 /\ pc = "idle")
  /\ [][ SyncReady /\ pc = "idle" /\ PresentFrameStep =>
           ret' # "BUSY" /\ SyncSubmitEffects
       ]_vars

\* C11 (amended): as above, but PresentFrame returns BUSY exactly when backend
\* Present itself answered BUSY, never because of a transfer in flight.
C11_SyncSubmit ==
  /\ [](SyncReady =>
          ~transfer_in_progress /\ draw_buffer_index = 0 /\ pc = "idle")
  /\ [][ SyncReady /\ pc = "idle" /\ PresentFrameStep =>
           /\ (ret' = "BUSY" <=> bk_called'.fn = "Present" /\ bk_status' = "BUSY")
           /\ SyncSubmitEffects
       ]_vars

\* a DIRTY frame with drawn content was accepted by a synchronous backend
C11_Witness ==
  /\ SyncReady /\ bk_called.fn = "Present" /\ bk_status = "OK" /\ ret = "OK"
  /\ mode = "DIRTY" /\ rect_empty(surface.dirty) /\ framebuffers[0] # ZeroBuffer

\* the fields a refused or failed submission must leave alone
submit_fields ==
  <<transfer_in_progress, draw_buffer_index, framebuffers, surface>>

\* C12: on an async-capable Present with no transfer in flight, when backend
\* Present returns a non-OK status PresentFrame returns it, the flag stays
\* false and index, framebuffers, Surface binding and dirty rect are unchanged;
\* the same request then hands the backend the same frame again.
C12_AsyncPresentFails ==
  /\ [](AsyncReady /\ pc = "present" => ~transfer_in_progress)
  /\ [][ AsyncReady =>
           /\ (pc = "idle" /\ pc' = "present" => UNCHANGED submit_fields)
           /\ (pc = "present" /\ bk_status' # "OK" /\ SubmitFrame_Present =>
                 /\ ret' = bk_status'
                 /\ pc' = "idle"
                 /\ ~transfer_in_progress'
                 /\ UNCHANGED submit_fields
                 /\ UNCHANGED <<hw_bits, flag_log>>)
           /\ \A m \in PresentModes :
                (pc = "idle" /\ bk_called.fn = "Present" /\ bk_status # "OK"
                   /\ ExpectedByMode(m) = <<mode, frame.dirty>> /\ PresentFrame(m)
                 => pc' = "present" /\ frame' = frame /\ mode' = mode)
           /\ \A r \in ExplicitRects :
                (pc = "idle" /\ bk_called.fn = "Present" /\ bk_status # "OK"
                   /\ ~rect_empty(intersect_rect(r, MkRect(0, 0, cfg.width, cfg.height)))
                   /\ ExpectedByRect(r) = <<mode, frame.dirty>> /\ PresentFrameRect(r)
                 => pc' = "present" /\ frame' = frame /\ mode' = mode)
       ]_vars

\* after one accepted frame the next one was refused by the backend
C12_Witness ==
  /\ AsyncReady /\ pc = "idle" /\ bk_called.fn = "Present"
  /\ bk_status = "SIZE_ERR" /\ ret = "SIZE_ERR" /\ ~transfer_in_progress
  /\ draw_buffer_index = 1 /\ ~rect_empty(surface.dirty)

\* a step that returned NOT_SUPPORT to the owning context
NotSupportReturn ==
  /\ ret' = "NOT_SUPPORT"
  /\ bk_called' = NoCall
  /\ UNCHANGED owner_fields
  /\ UNCHANGED <<transfer_in_progress, pc, hw_bits>>

\* a step that passed the call on to backend method fn with argument arg
PassedOn(fn, arg) ==
  /\ bk_called' = Call(fn, arg)
  /\ bk_status' \in BackendStatus
  /\ ret' = bk_status'

\* C13: on an initialized Present SetPowerSave / SetContrast / OnTransferDone
\* return NOT_SUPPORT without calling the backend or changing state when
\* caps.power_save / caps.contrast / caps.async_present is false; with the
\* capability SetPowerSave and SetContrast return the backend's status.
C13_CapabilityGate ==
  [][ initialized =>
        /\ \A e \in BOOLEAN :
             (pc = "idle" /\ SetPowerSave(e) =>
                IF caps.power_save
                  THEN PassedOn("SetPowerSave", IF e THEN 1 ELSE 0)
                  ELSE NotSupportReturn)
        /\ \A v \in ContrastValues :
             (pc = "idle" /\ SetContrast(v) =>
                IF caps.contrast
                  THEN PassedOn("SetContrast", v)
                  ELSE NotSupportReturn)
        /\ (~caps.async_present /\ OnTransferDone =>
              /\ flag_log'[Len(flag_log')] = "NOT_SUPPORT"
              /\ UNCHANGED owner_fields
              /\ UNCHANGED <<transfer_in_progress, pc, bk_called, bk_status, ret>>)
    ]_vars

\* SetContrast was refused on a backend that does have power_save
C13_Witness ==
  /\ initialized /\ caps.power_save /\ ~caps.contrast /\ ~caps.async_present
  /\ ret = "NOT_SUPPORT" /\ bk_called = NoCall
  /\ Len(flag_log) > 0 /\ flag_log[Len(flag_log)] = "NOT_SUPPORT"

\* everything of Present but in_frame_
but_in_frame ==
  <<cfg, caps, framebuffers, surface, draw_buffer_index, initialized,
    transfer_in_progress>>

\* what a PresentFrame step does, read off the state without in_frame
PresentOutcome(region, m) ==
  IF caps.async_present
    THEN IF transfer_in_progress
           THEN ret' = "BUSY" /\ pc' = "idle" /\ UNCHANGED but_in_frame
           ELSE pc' = "present" /\ UNCHANGED but_in_frame
    ELSE /\ bk_called'.fn = "Present"
         /\ ret' = bk_status'
         /\ surface' = IF bk_status' = "OK" THEN [surface EXCEPT !.dirty = MkRect(0, 0, 0, 0)]
                       ELSE surface
         /\ UNCHANGED <<cfg, caps, framebuffers, draw_buffer_index, initialized,
                        transfer_in_progress>>
  /\ frame'.dirty = region
  /\ mode' = m

\* a step of Surface drawing on the owning context: the one idle step that
\* returns no status, apart from the completion signal
SurfaceDrawPixelStep ==
  ret' = "NONE" /\ pc' = "idle" /\ ~OnTransferDone

\* C14: BeginFrame returns OK and opens a frame when none is open, BUSY and no
\* change when one is; EndFrame returns OK and closes it when one is open,
\* ARG_ERR and no change when none is; PresentFrame and Surface drawing leave
\* in_frame alone and act the same whether or not a frame is open.
C14_FramePairing ==
  [][ initialized /\ pc = "idle" =>
        /\ (frame'.bits = NullBits /\ BeginFrame =>
              /\ ret' = (IF in_frame THEN "BUSY" ELSE "OK")
              /\ in_frame'
              /\ UNCHANGED but_in_frame)
        /\ (frame'.bits = NullBits /\ EndFrame =>
              /\ ret' = (IF in_frame THEN "OK" ELSE "ARG_ERR")
              /\ ~in_frame'
              /\ UNCHANGED but_in_frame)
        /\ \A m \in PresentModes :
             ((frame'.bits # NullBits \/ ret' = "OK") /\ PresentFrame(m) =>
                /\ in_frame' = in_frame
                /\ LET expected == ExpectedByMode(m)
                   IN IF rect_empty(expected[2])
                        THEN ret' = "OK" /\ bk_called' = NoCall /\ UNCHANGED but_in_frame
                        ELSE PresentOutcome(expected[2], expected[1]))
        /\ \A r \in ExplicitRects :
             ((frame'.bits # NullBits \/ ret' = "ARG_ERR") /\ PresentFrameRect(r) =>
                /\ in_frame' = in_frame
                /\ LET expected == ExpectedByRect(r)
                   IN IF rect_empty(intersect_rect(r, MkRect(0, 0, cfg.width, cfg.height)))
                        THEN ret' = "ARG_ERR" /\ bk_called' = NoCall
                             /\ UNCHANGED but_in_frame
                        ELSE PresentOutcome(expected[2], expected[1]))
        /\ (SurfaceDrawPixelStep =>
              /\ in_frame' = in_frame
              /\ \E p \in DrawPoints, c \in Colors, o \in DrawOps :
                   <<framebuffers'[surface.bits], surface'>> =
                     DrawPixel(surface, framebuffers[surface.bits], p, c, o)
              /\ UNCHANGED <<cfg, caps, draw_buffer_index, initialized,
                             transfer_in_progress>>)
    ]_vars

\* inside an open frame a pixel was drawn and the frame was submitted, after
\* EndFrame had been refused outside it
C14_Witness ==
  /\ initialized /\ in_frame /\ pc = "idle" /\ ret = "OK"
  /\ bk_called.fn = "Present" /\ framebuffers[0] # ZeroBuffer

(***************************************************************************)
(* Properties: the Surface                                                 *)
(***************************************************************************)
\* rect r lies inside rect b
Contained(r, b) ==
  /\ r.x >= b.x /\ r.y >= b.y
  /\ r.x + r.w <= b.x + b.w /\ r.y + r.h <= b.y + b.h

\* C15: after any sequence of Surface calls GetDirtyRect() is empty or inside
\* {0, 0, size.w, size.h}, and so is GetClip().
C15_DirtyAndClipInBounds ==
  LET bounds == MkRect(0, 0, surface.size.w, surface.size.h)
  IN /\ rect_empty(GetDirtyRect(surface)) \/ Contained(GetDirtyRect(surface), bounds)
     /\ rect_empty(GetClip(surface)) \/ Contained(GetClip(surface), bounds)

\* a rect reaching out of the frame was added under a clip cut to one pixel
C15_Witness ==
  /\ call.fn = "AddDirtyRect" /\ call.args[1] = MkRect(8, 1, 4, 4)
  /\ GetDirtyRect(surface) = MkRect(8, 1, 1, 1)
  /\ GetClip(surface) = MkRect(8, 1, 1, 1)

\* the value of pixel (x, y) in the bytes buf of a surface with this stride
PixelBit(buf, stride_bytes, x, y) ==
  (buf[y * stride_bytes + (x \div 8)] \div (2 ^ (7 - (x % 8)))) % 2

\* point lies outside rect clip
OutsideRect(point, clip) ==
  \/ point.x < clip.x \/ point.x >= clip.x + clip.w
  \/ point.y < clip.y \/ point.y >= clip.y + clip.h

\* C16: DrawPixel at a point outside the clip rect, with any color and raster
\* op, changes no bit of the buffer and leaves GetDirtyRect() as it was.
C16_OutsideClipUntouched ==
  [][ call'.fn = "DrawPixel" /\ OutsideRect(call'.args[1], GetClip(surface)) =>
        /\ framebuffers' = framebuffers
        /\ GetDirtyRect(surface') = GetDirtyRect(surface)
    ]_vars

\* a pixel next to the right edge of the frame was refused on a drawn buffer
C16_Witness ==
  /\ call.fn = "DrawPixel" /\ call.args = <<Pt(9, 0), "WHITE", "XOR">>
  /\ GetClip(surface) = MkRect(0, 0, 9, 2)
  /\ framebuffers[0][1] = 128 /\ GetDirtyRect(surface) = MkRect(2, 0, 1, 1)

\* the value the claim's table gives the bit: old value d, color and raster op
RasterResult(d, color, raster_op) ==
  CASE raster_op = "COPY" -> IF color = "WHITE" THEN 1 ELSE 0
    [] raster_op = "XOR"  -> IF color = "WHITE" THEN 1 - d ELSE d
    [] raster_op = "AND"  -> IF color = "BLACK" THEN 0 ELSE d
    [] raster_op = "OR"   -> IF color = "WHITE" THEN 1 ELSE d

\* the smallest rect that holds rect r (when not empty) and the pixel at point
WithPixel(r, point) ==
  IF rect_empty(r) THEN MkRect(point.x, point.y, 1, 1)
  ELSE LET left   == IF point.x < r.x THEN point.x ELSE r.x
           top    == IF point.y < r.y THEN point.y ELSE r.y
           right  == IF point.x + 1 > r.x + r.w THEN point.x + 1 ELSE r.x + r.w
           bottom == IF point.y + 1 > r.y + r.h THEN point.y + 1 ELSE r.y + r.h
       IN MkRect(left, top, right - left, bottom - top)

\* C17: DrawPixel at a point inside the clip changes only that pixel's bit, to
\* COPY: color = WHITE; XOR: flipped if WHITE; AND: 0 if BLACK; OR: 1 if WHITE,
\* and adds the pixel to the dirty rect whether or not the bit changed.
C17_RasterOps ==
  [][ call'.fn = "DrawPixel" /\ ~OutsideRect(call'.args[1], GetClip(surface)) =>
        LET point  == call'.args[1]
            stride == surface.stride_bytes
            before == framebuffers[surface.bits]
            after  == framebuffers'[surface.bits]
        IN /\ PixelBit(after, stride, point.x, point.y) =
                RasterResult(PixelBit(before, stride, point.x, point.y),
                             call'.args[2], call'.args[3])
           /\ \A y \in 0 .. surface.size.h - 1 : \A x \in 0 .. 8 * stride - 1 :
                (x # point.x \/ y # point.y) =>
                  PixelBit(after, stride, x, y) = PixelBit(before, stride, x, y)
           /\ \A i \in {0, 1} : i # surface.bits => framebuffers'[i] = framebuffers[i]
           /\ GetDirtyRect(surface') = WithPixel(GetDirtyRect(surface), point)
    ]_vars

\* a set pixel in the second byte of a row was flipped off by WHITE / XOR
C17_Witness ==
  /\ call.fn = "DrawPixel" /\ call.args = <<Pt(8, 1), "WHITE", "XOR">>
  /\ framebuffers[0] = [k \in 0 .. kFramebufferBytes - 1 |->
                          IF k = 3 THEN 0 ELSE IF k % 2 = 0 THEN 165 ELSE 128]
  /\ GetDirtyRect(surface) = MkRect(2, 0, 7, 2)

\* C18: on a bound Surface of non-zero size Clear(color) sets every bit of all
\* stride * height bytes to the color's bit whatever the clip rect, and then
\* GetDirtyRect() is the full bounds.
C18_Clear ==
  [][ call'.fn = "Clear" /\ surface.bits # NullBits
        /\ surface.size.w # 0 /\ surface.size.h # 0 =>
        LET after == framebuffers'[surface.bits]
            fill  == IF call'.args[1] = "WHITE" THEN 1 ELSE 0
        IN /\ \A k \in 0 .. surface.stride_bytes * surface.size.h - 1 :
                \A b \in 0 .. 7 : (after[k] \div (2 ^ b)) % 2 = fill
           /\ GetDirtyRect(surface') = MkRect(0, 0, surface.size.w, surface.size.h)
    ]_vars

\* under a one-pixel clip and with nothing dirty, Clear(WHITE) set every bit
C18_Witness ==
  /\ call.fn = "Clear" /\ call.args = <<"WHITE">> /\ call.n = 3
  /\ GetClip(surface) = MkRect(8, 1, 1, 1)
  /\ \A k \in 0 .. 3 : framebuffers[0][k] = 255
  /\ GetDirtyRect(surface) = MkRect(0, 0, 9, 2)

\* C19: DrawHLine((x, y), -n) gives the buffer and dirty rect of
\* DrawHLine((x - n, y), n), DrawVLine((x, y), -n) those of
\* DrawVLine((x, y - n), n), for n >= 1; a length of 0 changes nothing.
C19_NegativeLength ==
  [][ LET point  == call'.args[1]
          length == call'.args[2]
          result == <<framebuffers'[surface.bits], surface'>>
      IN /\ (call'.fn = "DrawHLine" /\ length < 0 /\ -length <= 32767
               /\ point.x + length >= -32768 =>
               result = DrawHLine(surface, framebuffers[surface.bits],
                                  Pt(point.x + length, point.y), -length,
                                  call'.args[3], call'.args[4]))
         /\ (call'.fn = "DrawVLine" /\ length < 0 /\ -length <= 32767
               /\ point.y + length >= -32768 =>
               result = DrawVLine(surface, framebuffers[surface.bits],
                                  Pt(point.x, point.y + length), -length,
                                  call'.args[3], call'.args[4]))
         /\ (call'.fn \in {"DrawHLine", "DrawVLine"} /\ length = 0 =>
               UNCHANGED <<framebuffers, surface>>)
    ]_vars

\* DrawHLine((8, 1), -3) set pixels 5, 6 and 7 of row 1 of an empty buffer
C19_Witness ==
  /\ call.fn = "DrawHLine" /\ call.args = <<Pt(8, 1), -3, "WHITE", "COPY">>
  /\ framebuffers[0] = [k \in 0 .. kFramebufferBytes - 1 |-> IF k = 2 THEN 7 ELSE 0]
  /\ GetDirtyRect(surface) = MkRect(5, 1, 3, 1)

\* C20: DrawLine hands DrawPixel exactly max(|x1 - x0|, |y1 - y0|) + 1 points,
\* the first p0 and the last p1, each one at most one step in x and one in y
\* from the one before; DrawLine(p, p) hands it the one point p.
C20_LinePoints ==
  call.fn = "DrawLine" =>
    LET p0  == call.args[1]
        p1  == call.args[2]
        pts == call.pixels
        N   == Max(Abs(p1.x - p0.x), Abs(p1.y - p0.y)) + 1
    IN /\ Len(pts) = N
       /\ pts[1] = p0
       /\ pts[N] = p1
       /\ \A i \in 1 .. N - 1 :
            /\ Abs(pts[i + 1].x - pts[i].x) <= 1
            /\ Abs(pts[i + 1].y - pts[i].y) <= 1
       /\ (p0 = p1 => pts = <<p0>>)

\* the line from (0, 0) to (8, 1) was drawn over the whole frame
C20_Witness ==
  /\ call.fn = "DrawLine" /\ call.args = <<Pt(0, 0), Pt(8, 1), "WHITE", "COPY">>
  /\ Len(call.pixels) = 9 /\ GetDirtyRect(surface) = MkRect(0, 0, 9, 2)
  /\ call.pixels[5] \in {Pt(4, 0), Pt(4, 1)}

(***************************************************************************)
(* Properties: the geometry functions                                      *)
(***************************************************************************)
\* C21 as stated: intersect_rect is commutative, intersect_rect(a, a) = a for
\* a non-empty a, and union_rect(a, e) = a = union_rect(e, a) for every empty e.
C21_EmptyIsIdentity ==
  LET a == call.args[1]
      b == call.args[2]
  IN /\ (call.fn = "intersect_rect" =>
           /\ call.result = intersect_rect(b, a)
           /\ (a = b /\ ~rect_empty(a) => call.result = a))
     /\ (call.fn = "union_rect" =>
           /\ (rect_empty(b) => call.result = a)
           /\ (rect_empty(a) => call.result = b))

\* C21: intersect_rect is commutative, intersect_rect(a, a) = a for a non-empty
\* a, union_rect(e, a) = a for every empty e, and union_rect(a, e) = a for
\* every empty e and non-empty a; of two empty rects union_rect returns the
\* second.
C21_RectAlgebra ==
  LET a == call.args[1]
      b == call.args[2]
  IN /\ (call.fn = "intersect_rect" =>
           /\ call.result = intersect_rect(b, a)
           /\ (a = b /\ ~rect_empty(a) => call.result = a))
     /\ (call.fn = "union_rect" =>
           /\ (rect_empty(b) /\ ~rect_empty(a) => call.result = a)
           /\ (rect_empty(a) => call.result = b))

\* union_rect of a non-empty rect with an empty one that lies elsewhere
C21_Witness ==
  /\ call.fn = "union_rect"
  /\ call.args = <<MkRect(3, 0, 4, 1), MkRect(-32768, 32767, 0, 65535)>>
  /\ call.result = MkRect(3, 0, 4, 1)

\* C22: intersect_rect(r, B) with B = {0, 0, W, H} is non-empty and inside both
\* B and r, or it is Rect{0, 0, 0, 0}; never a rect with one of w, h zero.
C22_ClippedToBounds ==
  LET r == call.args[1]
      B == call.args[2]
  IN call.fn = "intersect_rect" /\ B.x = 0 /\ B.y = 0 =>
       \/ call.result = EmptyRect
       \/ /\ call.result.w > 0 /\ call.result.h > 0
          /\ call.result.x >= 0 /\ call.result.x + call.result.w <= B.w
          /\ call.result.y >= 0 /\ call.result.y + call.result.h <= B.h
          /\ call.result.x >= r.x /\ call.result.x + call.result.w <= r.x + r.w
          /\ call.result.y >= r.y /\ call.result.y + call.result.h <= r.y + r.h

\* a rect that sticks out of the bounds on the left was cut to them, and one
\* that only touches them in x came out as Rect{0, 0, 0, 0}
C22_Witness ==
  /\ call.fn = "intersect_rect"
  /\ call.args = <<MkRect(-2, 0, 4, 65535), MkRect(0, 0, 4, 1)>>
  /\ call.result = MkRect(0, 0, 2, 1)
  /\ intersect_rect(MkRect(-2, 0, 1, 1), MkRect(0, 0, 4, 1)) = EmptyRect

\* the pixel (x, y) lies in the half-open region of rect r
Inside(r, x, y) ==
  /\ r.x <= x /\ x < r.x + r.w
  /\ r.y <= y /\ y < r.y + r.h

\* coordinates at and next to the edges of the rects: two regions built of
\* these rects that agree on them agree everywhere
EdgeXs(rects) == UNION { {r.x - 1, r.x, r.x + r.w - 1, r.x + r.w} : r \in rects }

EdgeYs(rects) == UNION { {r.y - 1, r.y, r.y + r.h - 1, r.y + r.h} : r \in rects }

\* intersect_rect(a, b) is the region common to a and b
IntersectExact ==
  LET a == call.args[1]
      b == call.args[2]
      both == {a, b, call.result}
  IN call.fn = "intersect_rect" =>
       \A x \in EdgeXs(both), y \in EdgeYs(both) :
         Inside(call.result, x, y) <=> (Inside(a, x, y) /\ Inside(b, x, y))

\* the true union of a and b is no wider and no higher than a uint16_t holds
UnionFits(a, b) ==
  /\ Max(a.x + a.w, b.x + b.w) - Min(a.x, b.x) <= 65535
  /\ Max(a.y + a.h, b.y + b.h) - Min(a.y, b.y) <= 65535

UnionContainsBoth ==
  LET a == call.args[1]
      b == call.args[2]
  IN /\ Contained(a, call.result)
     /\ Contained(b, call.result)

\* C27 as stated: over the full field ranges intersect_rect(a, b) is the true
\* intersection and union_rect(a, b) of two non-empty rects contains a and b.
C27_NoResultWraps ==
  /\ IntersectExact
  /\ (call.fn = "union_rect" /\ ~rect_empty(call.args[1]) /\ ~rect_empty(call.args[2])
        => UnionContainsBoth)

\* C27: over the full field ranges intersect_rect(a, b) is the true
\* intersection, and union_rect(a, b) of two non-empty rects contains a and b
\* whenever their true union is at most 65535 wide and high.
C27_ExactGeometry ==
  /\ IntersectExact
  /\ (call.fn = "union_rect" /\ ~rect_empty(call.args[1]) /\ ~rect_empty(call.args[2])
         /\ UnionFits(call.args[1], call.args[2])
        => UnionContainsBoth)

\* the union of a rect at the low end of the int16_t range with one near
\* the origin
C27_Witness ==
  /\ call.fn = "union_rect"
  /\ call.args = <<MkRect(-32768, -32768, 1, 1), MkRect(3, 0, 4, 1)>>
  /\ call.result = MkRect(-32768, -32768, 32775, 32769)

(***************************************************************************)
(* Properties: outlines, bitmaps and out-of-range geometry                 *)
(***************************************************************************)
\* the pixels on the one-pixel border of a non-empty rect
Border(rect) ==
  { pt \in { [x |-> x, y |-> y] : x \in rect.x .. rect.x + rect.w - 1,
                                  y \in rect.y .. rect.y + rect.h - 1 } :
      \/ pt.x = rect.x \/ pt.x = rect.x + rect.w - 1
      \/ pt.y = rect.y \/ pt.y = rect.y + rect.h - 1 }

SourceBitSet(bitmap, sx, sy) ==
  /\ ~bitmap.bits.null
  /\ sx >= 0 /\ sx < bitmap.size.w /\ sy >= 0 /\ sy < bitmap.size.h
  /\ (bitmap.bits.bytes[sy * ((bitmap.size.w + 7) \div 8) + (sx \div 8)]
        \div (2 ^ (7 - (sx % 8)))) % 2 = 1

\* the DrawBitmap call just made changed the buffer as a stencil does: the
\* pixel at (point.x + sx, point.y + sy) got the raster op with the foreground
\* color when it is in the clip and source bit (sx, sy) is set, and every
\* other pixel kept its value
DrawnAsStencil ==
  LET point  == call'.args[1]
      bitmap == SourceBitmaps[call'.args[2]]
      stride == surface.stride_bytes
      before == framebuffers[surface.bits]
      after  == framebuffers'[surface.bits]
  IN \A y \in 0 .. surface.size.h - 1 : \A x \in 0 .. 8 * stride - 1 :
       PixelBit(after, stride, x, y) =
         IF /\ ~OutsideRect([x |-> x, y |-> y], GetClip(surface))
            /\ SourceBitSet(bitmap, x - point.x, y - point.y)
           THEN RasterResult(PixelBit(before, stride, x, y), call'.args[4], call'.args[5])
           ELSE PixelBit(before, stride, x, y)

\* C24: DrawBitmap applies DrawPixel(foreground, op) at (point.x + x,
\* point.y + y) for exactly the set source bits (MSB first, row stride
\* ceil(w / 8)); unset bits and pixels outside the clip keep their value, and
\* a null source or a zero width or height changes nothing.
C24_BitmapStencil ==
  [][ call'.fn = "DrawBitmap" => DrawnAsStencil ]_vars

\* the same for the calls whose target columns and rows all fit an int16_t
C24_StencilInRange ==
  [][ /\ call'.fn = "DrawBitmap"
      /\ call'.args[1].x + call'.args[3].w <= 32768
      /\ call'.args[1].y + call'.args[3].h <= 32768
      => DrawnAsStencil ]_vars

\* pixel (x, y) is on the line of the given length from point along x: for a
\* negative length the |length| pixels before point
OnHLine(point, length, x, y) ==
  /\ y = point.y
  /\ IF length >= 0 THEN x >= point.x /\ x < point.x + length
                     ELSE x >= point.x + length /\ x < point.x

OnVLine(point, length, x, y) ==
  /\ x = point.x
  /\ IF length >= 0 THEN y >= point.y /\ y < point.y + length
                     ELSE y >= point.y + length /\ y < point.y

\* pixel (x, y) is on the border of rect, taken over the integers
OnOutline(rect, x, y) ==
  /\ x >= rect.x /\ x < rect.x + rect.w /\ y >= rect.y /\ y < rect.y + rect.h
  /\ \/ x = rect.x \/ x = rect.x + rect.w - 1
     \/ y = rect.y \/ y = rect.y + rect.h - 1

\* C28: for every point, length and rect of the int16 / uint16 ranges, also
\* rect.w or rect.h above 32767 and point.x - |length| or point.y - |length|
\* below -32768, DrawHLine, DrawVLine and DrawRect change only pixels of the
\* requested line or outline that lie in the clip: nothing is wrapped onto
\* other pixels or drawn in the opposite direction.
C28_OnlyRequestedPixels ==
  [][ call'.fn \in {"DrawHLine", "DrawVLine", "DrawRect"} =>
        LET stride == surface.stride_bytes
            before == framebuffers[surface.bits]
            after  == framebuffers'[surface.bits]
        IN \A y \in 0 .. surface.size.h - 1 : \A x \in 0 .. 8 * stride - 1 :
             PixelBit(after, stride, x, y) # PixelBit(before, stride, x, y) =>
               /\ ~OutsideRect([x |-> x, y |-> y], GetClip(surface))
               /\ CASE call'.fn = "DrawHLine" ->
                         OnHLine(call'.args[1], call'.args[2], x, y)
                    [] call'.fn = "DrawVLine" ->
                         OnVLine(call'.args[1], call'.args[2], x, y)
                    [] call'.fn = "DrawRect" -> OnOutline(call'.args[1], x, y)
    ]_vars

\* the same for geometry whose ends fit an int16_t
C28_InRangeOnlyRequested ==
  [][ /\ call'.fn \in {"DrawHLine", "DrawVLine", "DrawRect"}
      /\ (call'.fn = "DrawHLine" =>
            call'.args[1].x + call'.args[2] >= -32768 /\ call'.args[2] > -32768)
      /\ (call'.fn = "DrawVLine" =>
            call'.args[1].y + call'.args[2] >= -32768 /\ call'.args[2] > -32768)
      /\ (call'.fn = "DrawRect" => call'.args[1].w <= 32767 /\ call'.args[1].h <= 32767)
      =>
        LET stride == surface.stride_bytes
            before == framebuffers[surface.bits]
            after  == framebuffers'[surface.bits]
        IN \A y \in 0 .. surface.size.h - 1 : \A x \in 0 .. 8 * stride - 1 :
             PixelBit(after, stride, x, y) # PixelBit(before, stride, x, y) =>
               /\ ~OutsideRect([x |-> x, y |-> y], GetClip(surface))
               /\ CASE call'.fn = "DrawHLine" ->
                         OnHLine(call'.args[1], call'.args[2], x, y)
                    [] call'.fn = "DrawVLine" ->
                         OnVLine(call'.args[1], call'.args[2], x, y)
                    [] call'.fn = "DrawRect" -> OnOutline(call'.args[1], x, y)
    ]_vars

\* the drawing operations of a Surface
DrawingOps ==
  { "Clear", "DrawPixel", "DrawHLine", "DrawVLine", "DrawLine", "DrawRect",
    "FillRect", "DrawCircle", "DrawBitmap", "DrawText", "DrawTextTopLeft" }

\* C26: on a Surface that is unbound (never bound, bound with a null bits
\* pointer, or bound with width 0 and stride 0) every drawing operation writes
\* no memory and leaves GetDirtyRect() as it was.  Each of the three cases has
\* null bits or width 0, so it satisfies Unbound; the formula covers every
\* Surface that does: also height 0, and width 0 with a stride above 0.
C26_UnboundNoOp ==
  [][ call'.fn \in DrawingOps /\ Unbound(surface) =>
        /\ call'.result = <<FALSE>>
        /\ framebuffers' = framebuffers
        /\ GetDirtyRect(surface') = GetDirtyRect(surface)
    ]_vars

\* a Surface bound to a null pointer as 9 x 2 holds a dirty rect from
\* AddDirtyRect, and DrawPixel at (0, 0), inside its clip, left all as it was
C26_Witness ==
  /\ call.fn = "DrawPixel" /\ call.args = <<Pt(0, 0), "WHITE", "XOR">>
  /\ call.result = <<FALSE>>
  /\ surface.bits = NullBits /\ surface.size = [w |-> 9, h |-> 2]
  /\ GetClip(surface) = MkRect(0, 0, 9, 2)
  /\ GetDirtyRect(surface) = MkRect(1, 0, 8, 1)

\* the bytes of the frame of Surface s in buf are all zero: cleared to BLACK
ClearedBlack(s, buf) ==
  \A k \in 0 .. s.stride_bytes * s.size.h - 1 : buf[k] = 0

\* the FillRect(r, WHITE, COPY) just made on a BLACK Surface with the default
\* stride set exactly the pixels of r that are in the clip
FilledExactly ==
  LET r      == call'.args[1]
      stride == surface.stride_bytes
      after  == framebuffers'[surface.bits]
  IN \A y \in 0 .. surface.size.h - 1 : \A x \in 0 .. surface.size.w - 1 :
       PixelBit(after, stride, x, y) =
         IF /\ x >= r.x /\ x < r.x + r.w /\ y >= r.y /\ y < r.y + r.h
            /\ ~OutsideRect([x |-> x, y |-> y], GetClip(surface))
           THEN 1 ELSE 0

\* the DrawBitmap just made from buffer 0 gave buffer 1 the pattern of buffer 0
SamePattern ==
  LET stride == surface.stride_bytes
  IN \A y \in 0 .. surface.size.h - 1 : \A x \in 0 .. surface.size.w - 1 :
       PixelBit(framebuffers'[1], stride, x, y) = PixelBit(framebuffers[0], stride, x, y)

\* a step of the fill, or of the read back, on Surfaces cleared to BLACK
StencilFill ==
  /\ call'.fn = "FillRect" /\ call'.args[2] = "WHITE" /\ call'.args[3] = "COPY"
  /\ surface.stride_bytes = (surface.size.w + 7) \div 8
  /\ ClearedBlack(surface, framebuffers[surface.bits])

StencilCopy ==
  /\ call'.fn = "DrawBitmap"
  /\ call'.args = <<[x |-> 0, y |-> 0], 0, surface.size, "WHITE", "COPY">>
  /\ surface.bits = 1
  /\ surface.stride_bytes = (surface.size.w + 7) \div 8
  /\ ClearedBlack(surface, framebuffers[1])

\* C25: on a Surface A with the default stride, cleared to BLACK,
\* FillRect(r, WHITE, COPY) sets a bit exactly for the pixels of r in the
\* clip; DrawBitmap((0, 0), A's buffer, A's size, WHITE, COPY) on a second
\* BLACK Surface of the same size reproduces the on/off pattern of A.
C25_FillThenStencil ==
  [][ (StencilFill => FilledExactly) /\ (StencilCopy => SamePattern) ]_vars

\* the same for Surfaces no wider and no higher than 32767
C25_InRangeFillThenStencil ==
  [][ surface.size.w <= 32767 /\ surface.size.h <= 32767 =>
        (StencilFill => FilledExactly) /\ (StencilCopy => SamePattern) ]_vars

(***************************************************************************)
(* Properties: the two framebuffers                                        *)
(***************************************************************************)
\* C30: right after each successful asynchronous submission, by mode or by
\* explicit rect, the new draw buffer has the pixel content of the buffer
\* just submitted at every pixel of the frame.
C30_BuffersConsistent ==
  [][ pc = "swap" /\ pc' = "idle" =>
        \A y \in 0 .. cfg.height - 1 : \A x \in 0 .. cfg.width - 1 :
          PixelBit(framebuffers'[draw_buffer_index'], StrideBytes(cfg), x, y) =
            PixelBit(framebuffers'[draw_buffer_index], StrideBytes(cfg), x, y)
    ]_vars

(***************************************************************************)
(* Properties: progress of asynchronous submission                         *)
(***************************************************************************)
\* C29: when every frame the backend accepts is followed by exactly one
\* OnTransferDone, IsTransferInProgress() becomes false again after every
\* submission, and it stays false until the next successful submission: it
\* turns true only by the store of SubmitFrame.
C29_TransferCompletes ==
  /\ IsTransferInProgress ~> ~IsTransferInProgress
  /\ [][ ~transfer_in_progress /\ transfer_in_progress' => pc = "store" ]_vars

(***************************************************************************)
(* Properties: what a submission drops from dirty tracking                 *)
(***************************************************************************)
\* C31: after PresentFrame(mode) or PresentFrame(rect) returns OK on a
\* partial-update backend, every pixel changed through the Surface since the
\* previous successful submission (here: since construction, when every pixel
\* was 0) lies in the region handed to backend Present or in the
\* GetDirtyRect() that remains.
C31_DroppedOnlyWhatWasSubmitted ==
  Submitted /\ caps.partial_update =>
    \A y \in 0 .. cfg.height - 1 : \A x \in 0 .. cfg.width - 1 :
      PixelBit(framebuffers[frame.bits], StrideBytes(cfg), x, y) # 0 =>
        \/ ~OutsideRect([x |-> x, y |-> y], frame.dirty)
        \/ ~OutsideRect([x |-> x, y |-> y], GetDirtyRect(surface))

(***************************************************************************)
(* Properties: the dirty rect                                              *)
(***************************************************************************)
\* the pixels of the Surface whose bit in after differs from that in before
ChangedPixels(s, before, after) ==
  { pt \in { [x |-> x, y |-> y] : x \in 0 .. s.size.w - 1, y \in 0 .. s.size.h - 1 } :
      PixelBit(after, s.stride_bytes, pt.x, pt.y) #
        PixelBit(before, s.stride_bytes, pt.x, pt.y) }

C33_ByteGranularCopy ==
  [][ call'.fn = "CopyRegionBetweenBuffers" =>
        LET src    == call'.args[1]
            dst    == call'.args[2]
            region == call'.args[3]
            stride == (cfg.width + 7) \div 8
            left   == IF region.x > 0 THEN region.x ELSE 0
            top    == IF region.y > 0 THEN region.y ELSE 0
            right  == IF region.x + region.w < cfg.width
                        THEN region.x + region.w ELSE cfg.width
            bottom == IF region.y + region.h < cfg.height
                        THEN region.y + region.h ELSE cfg.height
            first  == left \div 8
            last   == ((right + 7) \div 8) - 1
        IN /\ framebuffers'[src] = framebuffers[src]
           /\ IF right <= left \/ bottom <= top
                THEN framebuffers'[dst] = framebuffers[dst]
                ELSE /\ \A k \in DOMAIN framebuffers[dst] :
                          framebuffers'[dst][k] =
                            IF /\ k \div stride >= top /\ k \div stride < bottom
                               /\ k % stride >= first /\ k % stride <= last
                              THEN framebuffers[src][k] ELSE framebuffers[dst][k]
                     /\ 8 * first >= left - 7
                     /\ 8 * (last + 1) <= right + 7
                     /\ last + 1 <= stride
    ]_vars

\* the copy of {8, 1, 4, 4} on the 9 x 2 frame took byte 3 of an all-ones
\* buffer 0 into an all-zero buffer 1 and nothing else
C33_Witness ==
  /\ call.fn = "CopyRegionBetweenBuffers" /\ call.args = <<0, 1, MkRect(8, 1, 4, 4)>>
  /\ cfg.width = 9
  /\ framebuffers[0][0] = 255 /\ framebuffers[0][3] = 255
  /\ framebuffers[1][3] = 255 /\ framebuffers[1][2] = 0 /\ framebuffers[1][1] = 0

(***************************************************************************)
(* Properties: SetRotation                                                 *)
(***************************************************************************)
\* C34: on an initialized Present SetRotation(r) stores the rotation and marks
\* the full frame dirty: whatever the dirty rect was, afterwards
\* GetDirtyRect() is {0, 0, width, height}, so that the next PresentFrame(AUTO
\* or DIRTY) builds its frame view over the full frame rect; the draw buffer
\* index, the in-flight flag and the framebuffers are unchanged.
C34_SetRotation ==
  [][ /\ \A r \in Rotations :
           pc = "idle" /\ initialized /\ ret' = "OK" /\ SetRotation(r) =>
             /\ cfg'.rotation = r
             /\ GetDirtyRect(surface') = MkRect(0, 0, cfg.width, cfg.height)
             /\ UNCHANGED <<draw_buffer_index, transfer_in_progress, framebuffers>>
      /\ \A m \in {"AUTO", "DIRTY"} :
           /\ pc = "idle" /\ initialized
           /\ GetDirtyRect(surface) = MkRect(0, 0, cfg.width, cfg.height)
           /\ PresentFrame(m)
           => frame'.dirty = MkRect(0, 0, cfg.width, cfg.height)
    ]_vars

\* SetRotation(R90) after an asynchronous submission with nothing drawn: the
\* swap had cleared the dirty rect, and it is the full frame again
C34_Witness ==
  /\ initialized /\ cfg.rotation = "R90" /\ ret = "OK" /\ bk_called = NoCall
  /\ pc = "idle" /\ draw_buffer_index = 1 /\ transfer_in_progress
  /\ framebuffers = ZeroFramebuffers
  /\ GetDirtyRect(surface) = MkRect(0, 0, cfg.width, cfg.height)

(***************************************************************************)
(* Properties: every write inside the framebuffer                          *)
(***************************************************************************)
\* C35: on an initialized Present every PlotUnchecked a Surface drawing call
\* makes gets 0 <= x < width and 0 <= y < height, and the byte it writes has
\* an index below ceil(width / 8) * height in the bound framebuffer.
C35_PlotsInsideFrame ==
  initialized /\ call.fn \in {"DrawPixel", "DrawHLine"} =>
    \A i \in DOMAIN call.pixels :
      /\ 0 <= call.pixels[i].x /\ call.pixels[i].x < cfg.width
      /\ 0 <= call.pixels[i].y /\ call.pixels[i].y < cfg.height
      /\ 0 <= PlotOffset(surface, call.pixels[i])
      /\ PlotOffset(surface, call.pixels[i]) < ((cfg.width + 7) \div 8) * cfg.height

====
